---- MODULE Spec2Model ----
(***************************************************************************)
(* A model of the HTML corpus validation tools: the link checker of        *)
(* new_ToolLinkChecker.py (index build, extraction, de-duplication,        *)
(* classification, external probes on a worker pool, the collection scan), *)
(* and the note, bullet and navigation-path rules.                         *)
(*                                                                         *)
(* Strings are sequences of tokens.  A token is one character ("a", "B",   *)
(* "_", "/", "#", "?", " ", ">") or one literal the code tests as a whole  *)
(* (".html", ".css", "http://", "mailto:", "&gt;" ...).  No token is a     *)
(* piece of another one, so startswith / endswith / "in" / split on tokens *)
(* agree with the same tests on characters.                                *)
(***************************************************************************)
EXTENDS Integers, Sequences, FiniteSets, TLC

VARIABLES
    collection,         \* the document store's listing: Seq of [id, file_name]
    pc,                 \* position of the main thread
    html_items,         \* the scan's listing snapshot
    html_document_index,\* logical name -> Seq of ids
    cur,                \* 1-based position of the scan loop in html_items
    source_file,        \* name of the document under check
    content,            \* the document under check: Seq of [tag, href, text]
    unique_links,       \* extracted, de-duplicated links: Seq of [href, text]
    task,               \* per unique link: "queued" | "head" | "get" | "done"
    res,                \* per unique link: the result record of check_link
    resp,               \* per unique link: what its last finished request answered
    invalid,            \* return value of link_checker_single_html
    results,            \* the scan's consolidated list
    probes,             \* external target -> number of check_link runs that probed it
    threads,            \* max_workers of the pool that runs check_link
    all_links,          \* the Original: the links of every document, in one list
    checked_urls,       \* the Original: resolved targets a check has started for
    paging,             \* a run of list_all_html_files_in_collection (<<>> = none)
    navscan,            \* a run of invalid_navigation_paths_in_collection (<<>> = none)
    rule,               \* which rule evaluator ran last ("" = none)
    rule_in,            \* its input
    rule_out            \* its output

linkVars == <<collection, pc, html_items, html_document_index, cur, source_file,
              content, unique_links, task, res, resp, invalid, results, probes,
              threads>>
ruleVars == <<rule, rule_in, rule_out>>
origVars == <<all_links, checked_urls>>
toolVars == <<paging, navscan>>
vars == <<collection, pc, html_items, html_document_index, cur, source_file,
          content, unique_links, task, res, resp, invalid, results, probes,
          threads, all_links, checked_urls, paging, navscan, rule, rule_in, rule_out>>

-----------------------------------------------------------------------------
(* Bounds of the model *)

MaxFiles == 2       \* documents in a listing
MaxLinks == 2       \* link elements in one document
MaxNodes == 2       \* text nodes in a document under the note rule
MaxDepth == 2       \* elements above a text node
MaxDecls == 2       \* declarations in one style attribute
MaxParts == 5       \* children of a breadcrumb container
MaxWordLen == 4     \* tokens in a breadcrumb text node
MaxNameLen == 4     \* tokens in a file name

-----------------------------------------------------------------------------
(* Strings *)

Min(a, b) == IF a < b THEN a ELSE b

\* str.lower() on one token
LowerTok(t) ==
    CASE t = "A" -> "a"
      [] t = "B" -> "b"
      [] t = "P" -> "p"
      [] t = ".HTML" -> ".html"
      [] t = ".CSS" -> ".css"
      [] OTHER -> t

\* str.lower()
Lower(s) == [i \in DOMAIN s |-> LowerTok(s[i])]

\* s[:n]
Take(s, n) == SubSeq(s, 1, Min(Len(s), n))

\* s[n:] with n 0-based
Drop(s, n) == SubSeq(s, n + 1, Len(s))

\* s.find(t): 0-based position of the first t, -1 when absent
Find(s, t) ==
    IF \E i \in DOMAIN s : s[i] = t
    THEN (CHOOSE i \in DOMAIN s : s[i] = t /\ \A j \in 1..(i - 1) : s[j] # t) - 1
    ELSE -1

\* s.rfind(t)
RFind(s, t) ==
    IF \E i \in DOMAIN s : s[i] = t
    THEN (CHOOSE i \in DOMAIN s : s[i] = t /\ \A j \in (i + 1)..Len(s) : s[j] # t) - 1
    ELSE -1

\* s.split(t)[-1]
LastSegment(s, t) == Drop(s, RFind(s, t) + 1)

\* s.split(t, 1)[0]
BeforeFirst(s, t) == IF Find(s, t) < 0 THEN s ELSE Take(s, Find(s, t))

\* s.startswith(t) for a one-token literal t
StartsWith(s, t) == Len(s) > 0 /\ s[1] = t

\* s.endswith(exts) for a set of one-token literals
EndsWithAny(s, exts) == Len(s) > 0 /\ s[Len(s)] \in exts

\* t in s
Contains(s, t) == \E i \in DOMAIN s : s[i] = t

\* the elements of a list
Range(f) == {f[k] : k \in DOMAIN f}

-----------------------------------------------------------------------------
(* Values of the link checker *)

\* result["status"]: an HTTP code (label "") or a word (code 0)
StatusCode(c) == [code |-> c, label |-> ""]
StatusWord(w) == [code |-> 0, label |-> w]

\* result["error"]: the message, with the code or the logical name it embeds
ErrorText(m, c, n) == [msg |-> m, code |-> c, name |-> n]
NoError == ErrorText("", 0, <<>>)

\* what one request can answer: a status code, or an exception of requests
HttpCodes == {200, 404}
Exceptions == {"Timeout", "ConnectionError", "RequestException"}
Outcomes == [code : HttpCodes, exc : {""}] \cup [code : {0}, exc : Exceptions]

\* no request of the check has finished
NoResponse == [code |-> 0, exc |-> "none"]

-----------------------------------------------------------------------------
(* build_html_document_index *)

\* os.path.basename(name).lower()
BaseName(name) == Lower(LastSegment(name, "/"))

\* index.setdefault(logical, []).append(fid)
IndexAppend(index, logical, fid) ==
    IF logical \in DOMAIN index
    THEN [index EXCEPT ![logical] = Append(@, fid)]
    ELSE [k \in (DOMAIN index) \cup {logical} |->
            IF k = logical THEN <<fid>> ELSE index[k]]

\* the logical html identifier with only the first prefix removed
LogicalNameDropFirstPrefix(name) ==
    IF Find(BaseName(name), "_") < 0 THEN BaseName(name)
    ELSE Drop(BaseName(name), Find(BaseName(name), "_") + 1)

\* the logical html identifier of a listed file name
LogicalName(name) == LastSegment(BaseName(name), "_")

\* one turn of the loop over the listing
IndexStep(index, item) ==
    IF item.file_name = <<>> \/ item.id = 0
    THEN index
    ELSE IF EndsWithAny(BaseName(item.file_name), {".html"})
         THEN IndexAppend(index, LogicalName(item.file_name), item.id)
         ELSE index

RECURSIVE IndexFold(_, _, _)
IndexFold(index, items, i) ==
    IF i > Len(items) THEN index
    ELSE IndexFold(IndexStep(index, items[i]), items, i + 1)

BuildHtmlDocumentIndex(items) == IndexFold(<<>>, items, 1)

\* the entry is a document: its lower-cased basename ends with the extension
IsDocumentEntry(item) ==
    LET b == Lower(LastSegment(item.file_name, "/")) IN Len(b) > 0 /\ b[Len(b)] = ".html"

-----------------------------------------------------------------------------
(* link_checker_single_html: extraction and de-duplication *)

excluded_exts == {".html", ".css", ".js", ".svg", ".png", ".jpg", ".jpeg", ".gif", ".ico"}

TextLimit == 50

\* a.get_text(strip=True)[:50] or "Link"
AnchorText(e) == IF Take(e.text, TextLimit) = <<>> THEN <<"Link">> ELSE Take(e.text, TextLimit)

\* img.get("alt", "Image")[:50] or "Image"
ImageText(e) == IF Take(e.text, TextLimit) = <<>> THEN <<"Image">> ELSE Take(e.text, TextLimit)

\* the <a href> elements kept
KeepAnchor(e) ==
    /\ e.tag = "a"
    /\ e.href # <<>>
    /\ ~StartsWith(e.href, "javascript:")
    /\ ~StartsWith(e.href, "mailto:")
    /\ e.href # <<"#">>
    /\ ~EndsWithAny(Lower(e.href), excluded_exts)

\* the <link href> elements kept
KeepResource(e) ==
    /\ e.tag = "link"
    /\ e.href # <<>>
    /\ ~EndsWithAny(Lower(e.href), excluded_exts)

\* the <img src> elements kept
KeepImage(e) ==
    /\ e.tag = "img"
    /\ e.href # <<>>
    /\ ~EndsWithAny(Lower(e.href), excluded_exts)

LinkOf(e) ==
    [href |-> e.href,
     text |-> CASE e.tag = "a" -> AnchorText(e)
                [] e.tag = "link" -> <<"CSS/Resource link">>
                [] OTHER -> ImageText(e)]

MapLinks(es) == [i \in DOMAIN es |-> LinkOf(es[i])]

\* links: all anchors, then all link tags, then all images, each in document order
ExtractLinks(doc) ==
    MapLinks(SelectSeq(doc, KeepAnchor))
      \o MapLinks(SelectSeq(doc, KeepResource))
      \o MapLinks(SelectSeq(doc, KeepImage))

\* the link at position i survives when no earlier link has its href
FirstOfHref(links, i) == \A j \in 1..(i - 1) : links[j].href # links[i].href

RECURSIVE DedupFold(_, _, _)
DedupFold(links, i, acc) ==
    IF i > Len(links) THEN acc
    ELSE DedupFold(links, i + 1,
                   IF FirstOfHref(links, i) THEN Append(acc, links[i]) ELSE acc)

\* the links without the de-duplication
UniqueLinksKeepAll(links) == links

UniqueLinks(links) == DedupFold(links, 1, <<>>)

-----------------------------------------------------------------------------
(* link_checker_single_html: classification *)

IsExternal(href) == StartsWith(href, "http://") \/ StartsWith(href, "https://")

\* position (1-based) of the first of "/", "?", "#" at or after position 3; 0 if none
NetlocEnd(url) ==
    IF \E i \in 3..Len(url) : url[i] \in {"/", "?", "#"}
    THEN CHOOSE i \in 3..Len(url) :
            /\ url[i] \in {"/", "?", "#"}
            /\ \A j \in 3..(i - 1) : url[j] \notin {"/", "?", "#"}
    ELSE 0

\* urllib.parse.urlparse(href).path for an href that carries no scheme; each
\* intermediate string is bound to its value once
UrlPath(href) ==
    LET AfterNetloc(h) ==
            IF Len(h) >= 2 /\ h[1] = "/" /\ h[2] = "/"
            THEN IF NetlocEnd(h) = 0 THEN <<>> ELSE Drop(h, NetlocEnd(h) - 1)
            ELSE h
    IN CHOOSE path \in {BeforeFirst(noFragment, "?") :
                           noFragment \in {BeforeFirst(rest, "#") :
                                              rest \in {AfterNetloc(h) : h \in {href}}}} : TRUE

\* normalize_html_href
NormalizeHtmlHref(href) ==
    CHOOSE name \in {Lower(segment) :
                       segment \in {LastSegment(path, "/") : path \in {UrlPath(href)}}} : TRUE

\* html_document_index.get(logical_name, [])
IndexGet(index, logical) == IF logical \in DOMAIN index THEN index[logical] ELSE <<>>

\* resolve_local_html taking any match for a resolution
ResolveLocalHtmlAnyMatch(index, href) ==
    LET logical_name == NormalizeHtmlHref(href)
        matches == IndexGet(index, logical_name)
    IN IF Len(matches) >= 1
       THEN [status |-> StatusCode(200), is_broken |-> FALSE, error |-> NoError]
       ELSE [status |-> StatusCode(404), is_broken |-> TRUE,
             error |-> ErrorText("Logical HTML not found in collection", 0, logical_name)]

\* resolve_local_html
ResolveLocalHtml(index, href) ==
    LET logical_name == NormalizeHtmlHref(href)
        matches == IndexGet(index, logical_name)
    IN IF Len(matches) = 1
       THEN [status |-> StatusCode(200), is_broken |-> FALSE, error |-> NoError]
       ELSE IF Len(matches) > 1
       THEN [status |-> StatusWord("Ambiguous"), is_broken |-> TRUE,
             error |-> ErrorText("Multiple documents resolve to", 0, logical_name)]
       ELSE [status |-> StatusCode(404), is_broken |-> TRUE,
             error |-> ErrorText("Logical HTML not found in collection", 0, logical_name)]

\* urllib.parse.unquote(href).replace("\\", "/") on one token
UnquoteTok(t) ==
    CASE t = "%20" -> " "
      [] t = "\\" -> "/"
      [] OTHER -> t

\* resolve_url
ResolveUrl(src, href) ==
    IF IsExternal(href) THEN href
    ELSE IF StartsWith(href, "#") THEN src \o href
    ELSE [i \in DOMAIN href |-> UnquoteTok(href[i])]

\* the result dict check_link starts from
BlankResult(src, link) ==
    [file |-> src, href |-> link.href, text |-> link.text,
     resolved_url |-> ResolveUrl(src, link.href),
     status |-> StatusWord("None"), error |-> NoError, is_broken |-> FALSE]

\* the non-external branch of check_link
CheckLocal(index, src, link) ==
    LET r == BlankResult(src, link) IN
    IF StartsWith(link.href, "#")
    THEN [r EXCEPT !.status = StatusCode(200), !.is_broken = FALSE]
    ELSE IF Contains(Lower(link.href), ".html")
    THEN LET local == ResolveLocalHtml(index, link.href)
         IN [r EXCEPT !.status = local.status, !.is_broken = local.is_broken,
                      !.error = local.error]
    ELSE [r EXCEPT !.status = StatusWord("Not Validated"), !.is_broken = TRUE,
                   !.error = ErrorText("Local path cannot be verified without base URL", 0, <<>>)]

\* the external branch taking only the codes from 500 for broken
ExternalAnsweredServerErrorsOnly(src, link, c) ==
    [BlankResult(src, link) EXCEPT
        !.status = StatusCode(c),
        !.is_broken = (c >= 500),
        !.error = IF c >= 500 THEN ErrorText("HTTP", c, <<>>) ELSE NoError]

\* the external branch once the last request has answered with code c
ExternalAnswered(src, link, c) ==
    [BlankResult(src, link) EXCEPT
        !.status = StatusCode(c),
        !.is_broken = (c >= 400),
        !.error = IF c >= 400 THEN ErrorText("HTTP", c, <<>>) ELSE NoError]

\* the external branch with the three except clauses of the requests only
ExternalRaisedRequestsOnly(src, link, x) ==
    IF x \notin {"Timeout", "ConnectionError", "RequestException"}
    THEN BlankResult(src, link)
    ELSE [BlankResult(src, link) EXCEPT
            !.status = CASE x = "Timeout" -> StatusWord("Timeout")
                         [] x = "ConnectionError" -> StatusWord("Connection Error")
                         [] OTHER -> StatusWord("Request Error"),
            !.is_broken = TRUE,
            !.error = ErrorText(x, 0, <<>>)]

\* the external branch when a request raised exception x: the three except
\* clauses around the requests, then the except Exception around the branches
ExternalRaised(src, link, x) ==
    [BlankResult(src, link) EXCEPT
        !.status = CASE x = "Timeout" -> StatusWord("Timeout")
                     [] x = "ConnectionError" -> StatusWord("Connection Error")
                     [] x = "RequestException" -> StatusWord("Request Error")
                     [] OTHER -> StatusWord("Error"),
        !.is_broken = TRUE,
        !.error = CASE x = "Timeout" -> ErrorText("Request timed out", 0, <<>>)
                    [] x = "ConnectionError" -> ErrorText("Failed to establish connection", 0, <<>>)
                    [] OTHER -> ErrorText(x, 0, <<>>)]

\* the shape of one returned entry
Shape(r) ==
    [file |-> r.file, href |-> r.href, resolved_url |-> r.resolved_url,
     status |-> r.status, error |-> r.error, text |-> r.text]

\* the filter dropping what was not validated
IsBrokenValidatedOnly(r) == r.is_broken /\ r.status.label # "Not Validated"

IsBroken(r) == r.is_broken

\* invalid = [r for r in results if r.get("is_broken")], shaped
InvalidOf(rs) ==
    LET kept == SelectSeq(rs, IsBroken) IN [i \in DOMAIN kept |-> Shape(kept[i])]

-----------------------------------------------------------------------------
(* Inputs of the link checker *)

\* listed file names
NameA == <<"A", ".html">>
NamePB == <<"P", "_", "b", ".html">>
NameQB == <<"d", "/", "q", "_", "B", ".HTML">>
NameCss == <<"n", ".css">>
FileNames == {NameA, NamePB, NameQB, NameCss}

\* a listing gives the entry at position i the id i
ListingOf(names) == [i \in DOMAIN names |-> [id |-> i, file_name |-> names[i]]]

SeqsUpTo(S, n) == UNION {[1..k -> S] : k \in 0..n}

Listings == {ListingOf(ns) : ns \in SeqsUpTo(FileNames, MaxFiles)}

\* targets
UrlX == <<"http://", "x">>
UrlY == <<"https://", "y">>
HrefB == <<"B", ".html">>
HrefBFrag == <<"B", ".html", "#", "s">>
HrefAQuery == <<"d", "/", "a", ".html", "?", "q">>
HrefFrag == <<"#", "s">>
HrefAsset == <<"d", "/", "f">>

Elem(t, h, x) == [tag |-> t, href |-> h, text |-> x]

\* the link elements a document under single-document check is made of
LinkElems ==
    { Elem("a", UrlX, <<"t">>), Elem("a", UrlX, <<"u">>), Elem("img", UrlX, <<>>),
      Elem("a", HrefB, <<"t">>), Elem("a", HrefBFrag, <<"t">>),
      Elem("a", HrefAQuery, <<>>), Elem("a", HrefFrag, <<"t">>),
      Elem("link", HrefAsset, <<>>) }

Docs == SeqsUpTo(LinkElems, MaxLinks)

\* the documents the store serves in a collection scan
DocEmpty == <<>>
DocB == <<Elem("a", HrefB, <<"t">>)>>
DocXY == <<Elem("a", UrlX, <<"t">>), Elem("a", UrlY, <<"t">>)>>
DocXB == <<Elem("a", UrlX, <<"u">>), Elem("a", HrefBFrag, <<"t">>)>>
ScanDocs == {DocEmpty, DocB, DocXY, DocXB}

ExternalTargets == {UrlX, UrlY}

\* what get_file_content returns when the download fails: a text that starts
\* with "HTTP error" or "Request failed"; parsed, it is one text node
FetchErrorText == <<[tag |-> "#text", href |-> <<>>, text |-> <<"HTTP error occurred">>]>>

\* the default of the parameter threads
DefaultThreads == 10

-----------------------------------------------------------------------------
(* The link checker as a state machine *)

NoRule == rule = "" /\ rule_in = <<>> /\ rule_out = <<>>

\* the Original's link_checker is not running
NoOriginal == all_links = <<>> /\ checked_urls = {}

\* no listing with pagination and no navigation scan is running
NoTools == paging = <<>> /\ navscan = <<>>

\* html_link_validation_in_collection_by_id is called on a collection
Init ==
    /\ collection \in Listings
    /\ pc = "list"
    /\ html_items = <<>>
    /\ html_document_index = <<>>
    /\ cur = 0
    /\ source_file = <<>>
    /\ content = <<>>
    /\ unique_links = <<>>
    /\ task = <<>>
    /\ res = <<>>
    /\ resp = <<>>
    /\ invalid = <<>>
    /\ results = <<>>
    /\ probes = [u \in ExternalTargets |-> 0]
    /\ threads = DefaultThreads
    /\ NoRule
    /\ NoOriginal
    /\ NoTools

\* link_checker_single_html is called on one document with a built index
InitDoc ==
    /\ collection \in Listings
    /\ pc = "extract"
    /\ html_items = <<>>
    /\ html_document_index = BuildHtmlDocumentIndex(collection)
    /\ cur = 0
    /\ source_file = NameA
    /\ content \in Docs
    /\ unique_links = <<>>
    /\ task = <<>>
    /\ res = <<>>
    /\ resp = <<>>
    /\ invalid = <<>>
    /\ results = <<>>
    /\ probes = [u \in ExternalTargets |-> 0]
    /\ threads = DefaultThreads
    /\ NoRule
    /\ NoOriginal
    /\ NoTools

\* html_items = list_all_html_files_in_collection(...)
ListFiles ==
    /\ pc = "list"
    /\ html_items' = collection
    /\ pc' = "index"
    /\ UNCHANGED <<collection, html_document_index, cur, source_file, content,
                   unique_links, task, res, invalid, results, probes, resp>>
    /\ UNCHANGED ruleVars
    /\ UNCHANGED origVars
    /\ UNCHANGED toolVars
    /\ UNCHANGED threads

\* html_file_index = build_html_document_index(...), which lists the collection itself
BuildIndex ==
    /\ pc = "index"
    /\ html_document_index' = BuildHtmlDocumentIndex(collection)
    /\ cur' = 1
    /\ pc' = IF Len(html_items) = 0 THEN "done" ELSE "fetch"
    /\ UNCHANGED <<collection, html_items, source_file, content,
                   unique_links, task, res, invalid, results, probes, resp>>
    /\ UNCHANGED ruleVars
    /\ UNCHANGED origVars
    /\ UNCHANGED toolVars
    /\ UNCHANGED threads

\* content = get_file_content(...), handed to link_checker_single_html
FetchContent ==
    /\ pc = "fetch"
    /\ \E d \in ScanDocs : content' = d
    /\ source_file' = html_items[cur].file_name
    /\ pc' = "extract"
    /\ UNCHANGED <<collection, html_items, html_document_index, cur,
                   unique_links, task, res, invalid, results, probes, resp>>
    /\ UNCHANGED ruleVars
    /\ UNCHANGED origVars
    /\ UNCHANGED toolVars
    /\ UNCHANGED threads

\* get_file_content catches the failure of the download and returns its text,
\* which the scan hands to link_checker_single_html as the content
FetchFails ==
    /\ pc = "fetch"
    /\ content' = FetchErrorText
    /\ source_file' = html_items[cur].file_name
    /\ pc' = "extract"
    /\ UNCHANGED <<collection, html_items, html_document_index, cur,
                   unique_links, task, res, resp, invalid, results, probes>>
    /\ UNCHANGED ruleVars
    /\ UNCHANGED origVars
    /\ UNCHANGED toolVars
    /\ UNCHANGED threads

\* extraction and de-duplication; the links are handed to the executor
Extract ==
    /\ pc = "extract"
    /\ unique_links' = UniqueLinks(ExtractLinks(content))
    /\ task' = [i \in DOMAIN unique_links' |-> "queued"]
    /\ res' = [i \in DOMAIN unique_links' |-> BlankResult(source_file, unique_links'[i])]
    /\ resp' = [i \in DOMAIN unique_links' |-> NoResponse]
    /\ pc' = "check"
    /\ UNCHANGED <<collection, html_items, html_document_index, cur, source_file,
                   content, invalid, results, probes>>
    /\ UNCHANGED ruleVars
    /\ UNCHANGED origVars
    /\ UNCHANGED toolVars
    /\ UNCHANGED threads

InFlight == Cardinality({i \in DOMAIN task : task[i] \in {"head", "get"}})

\* check_link with the lookup written as html_document_index.setdefault
StartCheckSetDefault(i) ==
    /\ pc = "check"
    /\ task[i] = "queued"
    /\ \A j \in 1..(i - 1) : task[j] # "queued"
    /\ InFlight < threads
    /\ IF IsExternal(unique_links[i].href)
       THEN /\ task' = [task EXCEPT ![i] = "head"]
            /\ probes' = [probes EXCEPT ![unique_links[i].href] = @ + 1]
            /\ res' = res
            /\ html_document_index' = html_document_index
       ELSE /\ task' = [task EXCEPT ![i] = "done"]
            /\ res' = [res EXCEPT ![i] =
                          CheckLocal(html_document_index, source_file, unique_links[i])]
            /\ probes' = probes
            /\ html_document_index' =
                  IF ~StartsWith(unique_links[i].href, "#")
                        /\ Contains(Lower(unique_links[i].href), ".html")
                  THEN [L \in DOMAIN html_document_index
                                \cup {NormalizeHtmlHref(unique_links[i].href)} |->
                           IndexGet(html_document_index, L)]
                  ELSE html_document_index
    /\ UNCHANGED <<collection, pc, html_items, cur, source_file,
                   content, unique_links, invalid, results, resp>>
    /\ UNCHANGED ruleVars
    /\ UNCHANGED origVars
    /\ UNCHANGED toolVars
    /\ UNCHANGED threads

\* a worker takes the next queued link and runs check_link up to its first request
StartCheck(i) ==
    /\ pc = "check"
    /\ task[i] = "queued"
    /\ \A j \in 1..(i - 1) : task[j] # "queued"
    /\ InFlight < threads
    /\ IF IsExternal(unique_links[i].href)
       THEN /\ task' = [task EXCEPT ![i] = "head"]
            /\ probes' = [probes EXCEPT ![unique_links[i].href] = @ + 1]
            /\ res' = res
       ELSE /\ task' = [task EXCEPT ![i] = "done"]
            /\ res' = [res EXCEPT ![i] =
                          CheckLocal(html_document_index, source_file, unique_links[i])]
            /\ probes' = probes
    /\ UNCHANGED <<collection, pc, html_items, html_document_index, cur, source_file,
                   content, unique_links, invalid, results, resp>>
    /\ UNCHANGED ruleVars
    /\ UNCHANGED origVars
    /\ UNCHANGED toolVars
    /\ UNCHANGED threads

\* requests.head answers or raises
HeadAnswer(i, o) ==
    /\ pc = "check"
    /\ task[i] = "head"
    /\ resp' = [resp EXCEPT ![i] = o]
    /\ IF o.exc # ""
       THEN /\ task' = [task EXCEPT ![i] = "done"]
            /\ res' = [res EXCEPT ![i] = ExternalRaised(source_file, unique_links[i], o.exc)]
       ELSE IF o.code >= 400
       THEN /\ task' = [task EXCEPT ![i] = "get"]
            /\ res' = res
       ELSE /\ task' = [task EXCEPT ![i] = "done"]
            /\ res' = [res EXCEPT ![i] = ExternalAnswered(source_file, unique_links[i], o.code)]
    /\ UNCHANGED <<collection, pc, html_items, html_document_index, cur, source_file,
                   content, unique_links, invalid, results, probes>>
    /\ UNCHANGED ruleVars
    /\ UNCHANGED origVars
    /\ UNCHANGED toolVars
    /\ UNCHANGED threads

\* requests.get answers or raises
GetAnswer(i, o) ==
    /\ pc = "check"
    /\ task[i] = "get"
    /\ resp' = [resp EXCEPT ![i] = o]
    /\ task' = [task EXCEPT ![i] = "done"]
    /\ res' = [res EXCEPT ![i] =
                  IF o.exc # ""
                  THEN ExternalRaised(source_file, unique_links[i], o.exc)
                  ELSE ExternalAnswered(source_file, unique_links[i], o.code)]
    /\ UNCHANGED <<collection, pc, html_items, html_document_index, cur, source_file,
                   content, unique_links, invalid, results, probes>>
    /\ UNCHANGED ruleVars
    /\ UNCHANGED origVars
    /\ UNCHANGED toolVars
    /\ UNCHANGED threads

\* the executor has drained: filter, shape, return
ReturnInvalid ==
    /\ pc = "check"
    /\ \A i \in DOMAIN task : task[i] = "done"
    /\ invalid' = InvalidOf(res)
    /\ pc' = "returned"
    /\ UNCHANGED <<collection, html_items, html_document_index, cur, source_file,
                   content, unique_links, task, res, results, probes, resp>>
    /\ UNCHANGED ruleVars
    /\ UNCHANGED origVars
    /\ UNCHANGED toolVars
    /\ UNCHANGED threads

\* the scan loop ending at the first document with a reference that timed out
ExtendResultsAbortOnTimeout ==
    /\ pc = "returned"
    /\ results' = results \o invalid
    /\ IF \E k \in DOMAIN invalid : invalid[k].status = StatusWord("Timeout")
       THEN cur' = cur /\ pc' = "done"
       ELSE cur' = cur + 1 /\ pc' = IF cur + 1 > Len(html_items) THEN "done" ELSE "fetch"
    /\ UNCHANGED <<collection, html_items, html_document_index, source_file,
                   content, unique_links, task, res, resp, invalid, probes>>
    /\ UNCHANGED ruleVars
    /\ UNCHANGED origVars
    /\ UNCHANGED toolVars
    /\ UNCHANGED threads

\* results.extend(file_results) and the next turn of the scan loop
ExtendResults ==
    /\ pc = "returned"
    /\ results' = results \o invalid
    /\ cur' = cur + 1
    /\ pc' = IF cur + 1 > Len(html_items) THEN "done" ELSE "fetch"
    /\ UNCHANGED <<collection, html_items, html_document_index, source_file,
                   content, unique_links, task, res, invalid, probes, resp>>
    /\ UNCHANGED ruleVars
    /\ UNCHANGED origVars
    /\ UNCHANGED toolVars
    /\ UNCHANGED threads

CheckSteps ==
    \/ Extract
    \/ \E i \in DOMAIN task : StartCheck(i)
    \/ \E i \in DOMAIN task, o \in Outcomes : HeadAnswer(i, o)
    \/ \E i \in DOMAIN task, o \in Outcomes : GetAnswer(i, o)
    \/ ReturnInvalid

Next ==
    \/ ListFiles
    \/ BuildIndex
    \/ FetchContent
    \/ FetchFails
    \/ CheckSteps
    \/ ExtendResults

Spec == Init /\ [][Next]_vars

NextDoc == CheckSteps

SpecDoc == InitDoc /\ [][NextDoc]_vars

-----------------------------------------------------------------------------
(* Properties of the link checker *)

\* classes of result["status"]
HealthyStatus(st) == st.label = "" /\ st.code < 400
BrokenStatus(st) ==
    \/ st.label = "" /\ st.code >= 400
    \/ st.label \in {"Timeout", "Connection Error", "Request Error", "Error"}
AmbiguousStatus(st) == st.label = "Ambiguous"
NotValidatedStatus(st) == st.label = "Not Validated"

\* a reference check_link hands to resolve_local_html
SameCorpus(href) ==
    ~IsExternal(href) /\ ~StartsWith(href, "#") /\ Contains(Lower(href), ".html")

Reported(href) == \E k \in DOMAIN invalid : invalid[k].href = href
ReportedAs(href, P(_)) == \E k \in DOMAIN invalid : invalid[k].href = href /\ P(invalid[k].status)

C1_WitnessHealthy ==
    /\ pc = "returned"
    /\ \E i \in DOMAIN unique_links : unique_links[i].href = HrefBFrag
    /\ Len(IndexGet(html_document_index, <<"b", ".html">>)) = 1
    /\ ~Reported(HrefBFrag)

\* C2: in one scan each distinct external target is probed by at most one run
\* of check_link, whatever the documents that refer to it.
C2_ProbedOnce == \A u \in ExternalTargets : probes[u] <= 1

\* number of check_link runs started on target h in the document under check
ChecksOf(h) ==
    Cardinality({i \in DOMAIN task : task[i] # "queued" /\ unique_links[i].href = h})

\* first link with target h, in extraction order
FirstExtracted(h) ==
    LET ls == ExtractLinks(content)
    IN ls[CHOOSE j \in DOMAIN ls :
            ls[j].href = h /\ \A k \in 1..(j - 1) : ls[k].href # h]

\* C3: within one document each distinct raw target is checked at most once,
\* and the checked reference carries the display text of the first occurrence
\* of that target in extraction order.
C3_DedupFirstText ==
    pc \in {"check", "returned"} =>
        /\ \A i \in DOMAIN unique_links : ChecksOf(unique_links[i].href) <= 1
        /\ \A i \in DOMAIN unique_links :
              task[i] = "done" =>
                  res[i].text = FirstExtracted(unique_links[i].href).text

\* a document names one target twice with different texts; it was checked once
C3_Witness ==
    /\ pc = "returned"
    /\ content = <<Elem("a", UrlX, <<"u">>), Elem("a", UrlX, <<"t">>)>>
    /\ ChecksOf(UrlX) = 1
    /\ Len(res) = 1
    /\ res[1].text = <<"u">>

\* the listing holds A.html and no document with logical name b.html
ListingOfC4 ==
    /\ \E k \in DOMAIN html_items : html_items[k].file_name = NameA
    /\ \A k \in DOMAIN html_items :
          LogicalName(html_items[k].file_name) # <<"b", ".html">>

\* C4: once a scan has added A.html's findings, where the listing holds A.html
\* and no b.html and A.html holds <a href="B.html">, the result holds a Broken
\* finding for that reference with A.html as its source.
C4_BrokenFromA ==
    ( /\ pc \in {"fetch", "done"}
      /\ cur > 1
      /\ ListingOfC4
      /\ source_file = NameA
      /\ \E j \in DOMAIN content : content[j].tag = "a" /\ content[j].href = HrefB )
    => \E k \in DOMAIN results :
          /\ results[k].file = NameA
          /\ results[k].href = HrefB
          /\ BrokenStatus(results[k].status)

CountNotHealthy == Cardinality({i \in DOMAIN res : ~HealthyStatus(res[i].status)})

\* C10: link_checker_single_html returns exactly the checked references that
\* are not Healthy: every returned entry is Broken, Ambiguous or NotValidated,
\* every non-Healthy checked reference is returned, and no Healthy one is.
C10_OnlyNonHealthy ==
    pc = "returned" =>
        /\ \A k \in DOMAIN invalid :
              \/ BrokenStatus(invalid[k].status)
              \/ AmbiguousStatus(invalid[k].status)
              \/ NotValidatedStatus(invalid[k].status)
        /\ \A i \in DOMAIN res :
              ~HealthyStatus(res[i].status) =>
                  \E k \in DOMAIN invalid : invalid[k] = Shape(res[i])
        /\ \A i \in DOMAIN res :
              HealthyStatus(res[i].status) => ~Reported(res[i].href)
        /\ \A i \in DOMAIN unique_links :
              StartsWith(unique_links[i].href, "#") => ~Reported(unique_links[i].href)
        /\ Len(invalid) = CountNotHealthy

\* a document with a Healthy fragment and a NotValidated asset has returned
C10_Witness ==
    /\ pc = "returned"
    /\ \E i \in DOMAIN res : res[i].href = HrefFrag /\ HealthyStatus(res[i].status)
    /\ ReportedAs(HrefAsset, NotValidatedStatus)
    /\ Len(invalid) = 1

\* a step in which the check of link i leaves the position from for the position to
Moves(i, from, to) == i \in DOMAIN task /\ i \in DOMAIN task' /\ task[i] = from /\ task'[i] = to

\* C13: the check of an external target starts with a HEAD request; it ends
\* right after the HEAD only with a status below 400, and otherwise goes on to
\* one GET, from which the outcome is taken: a HEAD that answers >= 400 or
\* raises is never the end of the check.
C13_HeadThenGet ==
    [][\A i \in DOMAIN task :
          /\ (Moves(i, "queued", "get") => FALSE)
          /\ (Moves(i, "queued", "done") => ~IsExternal(unique_links[i].href))
          /\ (Moves(i, "head", "done") => HealthyStatus(res'[i].status))
          /\ (Moves(i, "get", "head") => FALSE)]_vars

\* C13 without the retry after a HEAD that raises: a check that ends right
\* after the HEAD has a status below 400 or the word of an exception
C13_HeadThenGetUnlessRaised ==
    [][\A i \in DOMAIN task :
          /\ (Moves(i, "queued", "get") => FALSE)
          /\ (Moves(i, "queued", "done") => ~IsExternal(unique_links[i].href))
          /\ (Moves(i, "head", "done") =>
                 \/ HealthyStatus(res'[i].status)
                 \/ res'[i].status.label \in {"Timeout", "Connection Error", "Request Error"})
          /\ (Moves(i, "get", "head") => FALSE)]_vars

\* the finished checks of external targets
FinishedExternal == {i \in DOMAIN task : task[i] = "done" /\ IsExternal(unique_links[i].href)}

\* C14: a finished check of an external target whose last request timed out or
\* could not connect is Broken with the timeout / connection-error reason; one
\* whose final status is >= 400 is Broken with reason "HTTP <code>"; one whose
\* final status is < 400 is Healthy; and the returned list agrees.
C14_ExternalOutcome ==
    pc \in {"check", "returned"} =>
        \A i \in FinishedExternal :
            /\ (resp[i].exc = "Timeout" =>
                   /\ res[i].is_broken
                   /\ res[i].status = StatusWord("Timeout")
                   /\ res[i].error = ErrorText("Request timed out", 0, <<>>))
            /\ (resp[i].exc = "ConnectionError" =>
                   /\ res[i].is_broken
                   /\ res[i].status = StatusWord("Connection Error")
                   /\ res[i].error = ErrorText("Failed to establish connection", 0, <<>>))
            /\ (resp[i].exc = "" /\ resp[i].code >= 400 =>
                   /\ res[i].is_broken
                   /\ res[i].status = StatusCode(resp[i].code)
                   /\ res[i].error = ErrorText("HTTP", resp[i].code, <<>>))
            /\ (resp[i].exc = "" /\ resp[i].code < 400 =>
                   /\ ~res[i].is_broken
                   /\ res[i].status = StatusCode(resp[i].code)
                   /\ res[i].error = NoError)
            /\ (pc = "returned" => (Reported(res[i].href) <=> res[i].is_broken))

\* an external target answered 404 to its last request and is reported with
\* reason "HTTP 404"
C14_Witness ==
    /\ pc = "returned"
    /\ \E i \in FinishedExternal :
          /\ resp[i] = [code |-> 404, exc |-> ""]
          /\ res[i].error = ErrorText("HTTP", 404, <<>>)
          /\ ReportedAs(res[i].href, BrokenStatus)

\* an external target answered 200 and is not reported
C14_WitnessHealthy ==
    /\ pc = "returned"
    /\ \E i \in FinishedExternal : resp[i] = [code |-> 200, exc |-> ""] /\ ~Reported(res[i].href)

\* a finding about the document as a whole, not about one of its references
DocumentLevelError(r) == r.href = <<>> /\ ~HealthyStatus(r.status)

\* the scan has gone past the document at position cur - 1
PastDocument == pc \in {"fetch", "done"} /\ cur > 1

\* C15: once the scan has gone past a document whose download failed, the
\* result holds a document-level error finding for it; the text of the failure
\* is never run through the link check; and the scan goes on to the end.
C15_FetchFailureReported ==
    /\ (PastDocument /\ content = FetchErrorText =>
           \E k \in DOMAIN results :
               results[k].file = source_file /\ DocumentLevelError(results[k]))
    /\ (pc \in {"check", "returned"} => content # FetchErrorText)

\* C15, last part: a failed download does not end the scan: the loop goes on
\* to the next listed document
C15_ScanGoesOn ==
    [][pc = "returned" /\ content = FetchErrorText =>
          /\ cur' = cur + 1
          /\ pc' = IF cur < Len(html_items) THEN "fetch" ELSE "done"]_vars

\* what the scan returns for a listing without documents: results = [] returned
\* after a loop of no turn
ResultOfEmptyListing == <<>>

\* C16: a finished scan of a listing without documents returns a value that
\* tells it from every finished scan that processed documents, also from one
\* that found no defect.
C16_NoDocumentsSignal ==
    pc = "done" =>
        /\ (html_items = <<>> => results = ResultOfEmptyListing)
        /\ (html_items # <<>> => results # ResultOfEmptyListing)

\* C16, first part: on a listing without documents the scan ends without
\* fetching or checking anything
C16_EndsEarly ==
    [][pc = "index" /\ html_items = <<>> => pc' = "done" /\ results' = <<>>]_vars

-----------------------------------------------------------------------------
(* The scan when every request answers or hits its timeout *)

\* the collections scanned here: documents that differ in id and content and
\* share the name A.html, so that no same-corpus reference resolves
LiveListings == {ListingOf(ns) : ns \in SeqsUpTo({NameA}, MaxFiles)}

InitLive == Init /\ collection \in LiveListings

\* the main thread and the workers keep running, and every request sent ends
\* with an answer or with the exception of its timeout
SpecLive == InitLive /\ [][Next]_vars /\ WF_vars(Next)

\* the scan has returned after a turn of its loop for every listed document
ScanComplete == pc = "done" /\ cur = Len(html_items) + 1

\* C19: the scan terminates, having processed every listed document; and when
\* a document's check returns, every reference has its result, with the
\* timeout status for exactly the references whose request timed out.
C19_ScanTerminates ==
    /\ <>ScanComplete
    /\ [](pc = "returned" =>
            \A i \in DOMAIN unique_links :
                /\ task[i] = "done"
                /\ (res[i].status = StatusWord("Timeout") <=> resp[i].exc = "Timeout")
                /\ (res[i].is_broken <=> Reported(res[i].href)))

\* a scan of two documents has ended; a reference to the host that timed out
\* is reported Broken, and so is a same-corpus reference of the same scan
C19_Witness ==
    /\ ScanComplete
    /\ Len(html_items) = 2
    /\ \E k \in DOMAIN results :
          results[k].href = UrlX /\ results[k].status = StatusWord("Timeout")
    /\ \E k \in DOMAIN results :
          results[k].href = HrefBFrag /\ results[k].status = StatusCode(404)

-----------------------------------------------------------------------------
(* The scan on a document store that other users write to *)

\* a document is uploaded to the collection, or its last document is deleted,
\* between the scan's listing and the listing of the index build
StoreChanges ==
    /\ pc = "index"
    /\ \/ /\ Len(collection) < MaxFiles
          /\ \E n \in FileNames :
                collection' = Append(collection, [id |-> Len(collection) + 1, file_name |-> n])
       \/ /\ Len(collection) > 0
          /\ collection' = SubSeq(collection, 1, Len(collection) - 1)
    /\ UNCHANGED <<pc, html_items, html_document_index, cur, source_file, content,
                   unique_links, task, res, resp, invalid, results, probes>>
    /\ UNCHANGED ruleVars
    /\ UNCHANGED origVars
    /\ UNCHANGED toolVars
    /\ UNCHANGED threads

NextStore == Next \/ StoreChanges

SpecStore == Init /\ [][NextStore]_vars

\* the ids an index holds
IdsIn(index) == UNION {Range(index[L]) : L \in DOMAIN index}

\* the ids of the documents of a listing
DocumentIdsOf(l) == {l[k].id : k \in {j \in DOMAIN l : IsDocumentEntry(l[j])}}

\* C17: from the index build on, the ids in the index are the ids of the .html
\* documents of the listing the scan iterates over, whatever happens to the
\* collection during the scan.
C17_IndexOfScannedListing ==
    pc \notin {"list", "index"} =>
        IdsIn(html_document_index) = DocumentIdsOf(html_items)

\* C17, first part: the index is written by the index build and by no later step
C17_BuiltOnce ==
    [][pc # "index" => html_document_index' = html_document_index]_vars

-----------------------------------------------------------------------------
(* Rule evaluators: each is called on one parsed document *)

\* the link checker is not running
IdleLink ==
    /\ collection = <<>>
    /\ pc = "idle"
    /\ html_items = <<>>
    /\ html_document_index = <<>>
    /\ cur = 0
    /\ source_file = <<>>
    /\ content = <<>>
    /\ unique_links = <<>>
    /\ task = <<>>
    /\ res = <<>>
    /\ resp = <<>>
    /\ invalid = <<>>
    /\ results = <<>>
    /\ probes = [u \in ExternalTargets |-> 0]
    /\ threads = DefaultThreads
    /\ NoOriginal

-----------------------------------------------------------------------------
(* check_single_file_note                                                  *)
(*                                                                         *)
(* A document is the sequence of its text nodes; a text node has its text  *)
(* and the chain of elements above it, chain[1] its parent.  An element    *)
(* has a tag and a class list; a class name is a token sequence.           *)

ClassNote == <<"Note">>
ClassNoteBox == <<"Note", "Box">>
ClassGrey == <<"grey">>
NoteClassLists == {<<>>, <<ClassNote>>, <<ClassNote, ClassGrey>>, <<ClassNoteBox>>}
NoteElems == [tag : {"div", "p"}, class : NoteClassLists]
NoteTexts == {<<"Note:", "x">>, <<"x">>}
NoteNodes == [text : NoteTexts, chain : SeqsUpTo(NoteElems, MaxDepth)]
NoteDocs == SeqsUpTo(NoteNodes, MaxNodes)

\* class_=re.compile(r"Note") on an element's class list
MatchesNoteRe(classes) == \E k \in DOMAIN classes : Contains(classes[k], "Note")

\* soup.find_all("div", class_=re.compile(r"Note")) holds the element
IsNoteDiv(e) == e.tag = "div" /\ MatchesNoteRe(e.class)

\* "Note:" in div.get_text() for some note div
FoundNoteInNoteDiv(doc) ==
    \E n \in DOMAIN doc :
        /\ Contains(doc[n].text, "Note:")
        /\ \E k \in DOMAIN doc[n].chain : IsNoteDiv(doc[n].chain[k])

\* parent.find_parent("div", class_=re.compile(r"Note")): an element above the parent
ParentHasNoteDivAbove(chain) == \E k \in 2..Len(chain) : IsNoteDiv(chain[k])

\* parent.get("class") != ["Note"]; the parent of a top-level text is the
\* document object, which has no class
ParentClassIsNotNote(chain) == IF Len(chain) = 0 THEN TRUE ELSE chain[1].class # <<ClassNote>>

\* the loop body at one text node that holds "Note:"
OutsideNoteDiv(node) ==
    ~ParentHasNoteDivAbove(node.chain) /\ ParentClassIsNotNote(node.chain)

FoundNoteOutsideNoteDiv(doc) ==
    \E n \in DOMAIN doc : Contains(doc[n].text, "Note:") /\ OutsideNoteDiv(doc[n])

CheckSingleFileNote(doc, file) ==
    IF FoundNoteOutsideNoteDiv(doc)
    THEN [file |-> file, status |-> "Invalid",
          error |-> "'Note:' found outside designated grey box",
          note_inside_box |-> FoundNoteInNoteDiv(doc), note_outside_box |-> TRUE]
    ELSE [file |-> file, status |-> "Valid", error |-> "",
          note_inside_box |-> FoundNoteInNoteDiv(doc), note_outside_box |-> FALSE]

\* check_note on one listed document: the results it appends
CheckNoteFindings(doc, file) ==
    LET file_result == CheckSingleFileNote(doc, file)
    IN IF file_result.status = "Invalid" THEN <<file_result>> ELSE <<>>

InitNote ==
    /\ IdleLink
    /\ NoTools
    /\ rule = ""
    /\ rule_in \in NoteDocs
    /\ rule_out = <<>>

RunNote ==
    /\ rule = ""
    /\ rule' = "note"
    /\ rule_out' = CheckNoteFindings(rule_in, NameA)
    /\ UNCHANGED rule_in
    /\ UNCHANGED linkVars
    /\ UNCHANGED origVars
    /\ UNCHANGED toolVars

SpecNote == InitNote /\ [][RunNote]_vars

\* the element carries the note class
CarriesNoteClass(e) == \E k \in DOMAIN e.class : e.class[k] = ClassNote

\* the text node is inside a container that carries the note class
InsideNoteContainer(node) == \E k \in DOMAIN node.chain : CarriesNoteClass(node.chain[k])

NoteOccurrences(doc) == {n \in DOMAIN doc : Contains(doc[n].text, "Note:")}

\* C5: no "Note:" text node, or every one inside a container that carries the
\* note class (itself or an ancestor): no note finding; at least one outside:
\* exactly one note finding.
C5_NotePlacement ==
    rule = "note" =>
        /\ (NoteOccurrences(rule_in) = {} => Len(rule_out) = 0)
        /\ ((\A n \in NoteOccurrences(rule_in) : InsideNoteContainer(rule_in[n]))
               => Len(rule_out) = 0)
        /\ ((\E n \in NoteOccurrences(rule_in) : ~InsideNoteContainer(rule_in[n]))
               => Len(rule_out) = 1)

-----------------------------------------------------------------------------
(* check_bullets_in_single_file                                            *)
(*                                                                         *)
(* An element has a tag, an id, a class list and a style attribute.  The   *)
(* style is written from a list of declarations (decls), each a property,  *)
(* a value, a unit and whether a space follows the colon; the checker      *)
(* reads only the written text (style).                                    *)

ClassList1 == <<"List_", "1", "_-_", "a">>
ClassListX == <<"List_", "x">>
ClassPlain == <<"body">>
BulletClassLists == {<<>>, <<ClassList1>>, <<ClassPlain, ClassList1>>, <<ClassListX>>}

Decl(p, v, u, sp) == [prop |-> p, value |-> v, unit |-> u, spaced |-> sp]

BulletDecls ==
    { Decl("margin-left", "18", "pt", TRUE), Decl("margin-left", "18", "pt", FALSE),
      Decl("margin-left", "20", "pt", TRUE), Decl("margin-left", "18", "px", TRUE),
      Decl("margin-left", "2", "em", TRUE),
      Decl("padding", "0", "", TRUE), Decl("line-height", "1", "", FALSE),
      Decl("padding-left", "0", "", TRUE) }

\* the text of one declaration
WriteDecl(d) ==
    <<d.prop, ":">> \o (IF d.spaced THEN <<" ">> ELSE <<>>) \o <<d.value>>
      \o (IF d.unit = "" THEN <<>> ELSE <<d.unit>>)

\* the text of a style attribute: declarations joined by "; "
RECURSIVE WriteStyle(_)
WriteStyle(ds) ==
    IF Len(ds) = 0 THEN <<>>
    ELSE IF Len(ds) = 1 THEN WriteDecl(ds[1])
    ELSE WriteDecl(ds[1]) \o <<";", " ">> \o WriteStyle(Tail(ds))

\* declaration lists that name no property twice
DeclLists ==
    {ds \in SeqsUpTo(BulletDecls, MaxDecls) :
        \A i, j \in DOMAIN ds : i # j => ds[i].prop # ds[j].prop}

BulletElem(t, i, c, ds) ==
    [tag |-> t, id |-> i, class |-> c, decls |-> ds, style |-> WriteStyle(ds)]

\* the element under test, alone or followed by a plain list item
BulletCompanion == BulletElem("li", "e2", <<>>, <<Decl("padding", "0", "", TRUE)>>)
BulletTestElems ==
    {BulletElem(t, "e1", c, ds) : t \in {"div", "li", "p"}, c \in BulletClassLists, ds \in DeclLists}
BulletDocs ==
    {<<>>} \cup {<<e>> : e \in BulletTestElems} \cup {<<e, BulletCompanion>> : e \in BulletTestElems}

Digits == {"1", "2"}
WordToks == {"a", "x"}

\* re.compile(r"List_\d+_-_\w+") on one class name
ListClassRe(c) ==
    \E i \in DOMAIN c :
        /\ i + 3 <= Len(c)
        /\ c[i] = "List_"
        /\ c[i + 1] \in Digits
        /\ c[i + 2] = "_-_"
        /\ c[i + 3] \in WordToks

\* soup.find_all("div", class_=re.compile(...)) + soup.find_all("li"), as a set
BulletElements(doc) ==
    {doc[i] : i \in {j \in DOMAIN doc :
        \/ doc[j].tag = "div" /\ \E k \in DOMAIN doc[j].class : ListClassRe(doc[j].class[k])
        \/ doc[j].tag = "li"}}

\* tokens \d+(?:\.\d+)? matches
NumberToks == {"18", "20", "2", "0", "1"}

\* position after the white space that starts at position i
RECURSIVE SkipSpaces(_, _)
SkipSpaces(s, i) == IF i <= Len(s) /\ s[i] = " " THEN SkipSpaces(s, i + 1) ELSE i

\* r"margin-left:\s*(\d+(?:\.\d+)?)(pt|px)" matches at position i
MarginAt(s, i) ==
    /\ i + 1 <= Len(s)
    /\ s[i] = "margin-left"
    /\ s[i + 1] = ":"
    /\ LET n == SkipSpaces(s, i + 2)
       IN /\ n + 1 <= Len(s)
          /\ s[n] \in NumberToks
          /\ s[n + 1] \in {"pt", "px"}

\* re.search of it: <<group(1), group(2)>> of the leftmost match, <<>> when none
MarginMatch(s) ==
    IF \E i \in DOMAIN s : MarginAt(s, i)
    THEN LET i == CHOOSE i \in DOMAIN s : MarginAt(s, i) /\ \A j \in 1..(i - 1) : ~MarginAt(s, j)
             n == SkipSpaces(s, i + 2)
         IN <<s[n], s[n + 1]>>
    ELSE <<>>

\* position of the first ";" at or after i, Len(s) + 1 when none
RECURSIVE NextSemi(_, _)
NextSemi(s, i) == IF i > Len(s) \/ s[i] = ";" THEN i ELSE NextSemi(s, i + 1)

\* re.findall(r"(padding|line-height):\s*[^;]+", style)
RECURSIVE InvalidProps(_, _)
InvalidProps(s, i) ==
    IF i > Len(s) THEN <<>>
    ELSE IF /\ s[i] \in {"padding", "line-height"}
            /\ i + 2 <= Len(s)
            /\ s[i + 1] = ":"
            /\ s[i + 2] # ";"
    THEN <<s[i]>> \o InvalidProps(s, NextSemi(s, i + 2))
    ELSE InvalidProps(s, i + 1)

Issue(e, r, d) == [element_id |-> e.id, reason |-> r, detail |-> d]

\* the margin-left check accepting any length in pt
MarginIssuesAnyPt(e) ==
    IF \E k \in DOMAIN e.class : Contains(e.class[k], "List_")
    THEN LET m == MarginMatch(e.style)
         IN IF m = <<>>
            THEN <<Issue(e, "Missing margin-left property", <<>>)>>
            ELSE IF m[2] # "pt"
            THEN <<Issue(e, "Invalid margin-left", m)>>
            ELSE <<>>
    ELSE <<>>

\* Rule 1: margin-left validation for List_* classes
MarginIssues(e) ==
    IF \E k \in DOMAIN e.class : Contains(e.class[k], "List_")
    THEN LET m == MarginMatch(e.style)
         IN IF m = <<>>
            THEN <<Issue(e, "Missing margin-left property", <<>>)>>
            ELSE IF m[1] # "18" \/ m[2] # "pt"
            THEN <<Issue(e, "Invalid margin-left", m)>>
            ELSE <<>>
    ELSE <<>>

\* the padding / line-height check
PropIssues(e) ==
    LET found == InvalidProps(e.style, 1)
    IN IF found # <<>>
       THEN <<Issue(e, "Found problematic properties", found)>>
       ELSE <<>>

\* the loop body at one bullet element
ElementIssues(e) == MarginIssues(e) \o PropIssues(e)

\* the loop over the elements in the order es
RECURSIVE Misaligned(_)
Misaligned(es) == IF es = <<>> THEN <<>> ELSE ElementIssues(Head(es)) \o Misaligned(Tail(es))

\* the orders in which a set can be iterated
Orders(S) == {f \in [1..Cardinality(S) -> S] : \A i, j \in DOMAIN f : i # j => f[i] # f[j]}

\* the return value: issues = <<>> stands for None
BulletReport(es) ==
    [total_bullets |-> Len(es), misaligned_count |-> Len(Misaligned(es)),
     issues |-> Misaligned(es)]

InitBullets ==
    /\ IdleLink
    /\ NoTools
    /\ rule = ""
    /\ rule_in \in BulletDocs
    /\ rule_out = <<>>

\* check_bullets_in_single_file; a set is iterated in an order the code does not fix
RunBullets ==
    /\ rule = ""
    /\ rule' = "bullets"
    /\ \E es \in Orders(BulletElements(rule_in)) : rule_out' = BulletReport(es)
    /\ UNCHANGED rule_in
    /\ UNCHANGED linkVars
    /\ UNCHANGED origVars
    /\ UNCHANGED toolVars

SpecBullets == InitBullets /\ [][RunBullets]_vars

\* the findings about the element with id i
IssuesOf(i) == {k \in DOMAIN rule_out.issues : rule_out.issues[k].element_id = i}
MarginIssuesOf(i) ==
    {k \in IssuesOf(i) : rule_out.issues[k].reason
                            \in {"Missing margin-left property", "Invalid margin-left"}}
PropIssuesOf(i) ==
    {k \in IssuesOf(i) : rule_out.issues[k].reason = "Found problematic properties"}

HasListStyleClass(e) == \E k \in DOMAIN e.class : e.class[k] = ClassList1
DeclaresProp(e, p) == \E k \in DOMAIN e.decls : e.decls[k].prop = p
MarginLeftIs18pt(e) ==
    \E k \in DOMAIN e.decls :
        e.decls[k].prop = "margin-left" /\ e.decls[k].value = "18" /\ e.decls[k].unit = "pt"
DeclaresPaddingOrLineHeight(e) == DeclaresProp(e, "padding") \/ DeclaresProp(e, "line-height")

\* C6: for every bullet element (a div with a list-style class, or a list
\* item): list-style class, margin-left exactly 18pt and no padding or
\* line-height: no finding; list-style class and margin-left missing or
\* different: a margin finding; padding or line-height declared: a property
\* finding, whatever the margin-left, so both findings when both apply.
C6_BulletAlignment ==
    rule = "bullets" =>
        \A e \in BulletElements(rule_in) :
            /\ (HasListStyleClass(e) /\ MarginLeftIs18pt(e) /\ ~DeclaresPaddingOrLineHeight(e)
                   => IssuesOf(e.id) = {})
            /\ (HasListStyleClass(e) /\ ~MarginLeftIs18pt(e)
                   => Cardinality(MarginIssuesOf(e.id)) = 1)
            /\ (DeclaresPaddingOrLineHeight(e)
                   => Cardinality(PropIssuesOf(e.id)) = 1)
            /\ (HasListStyleClass(e) /\ ~MarginLeftIs18pt(e) /\ DeclaresPaddingOrLineHeight(e)
                   => Cardinality(IssuesOf(e.id)) = 2)

\* a list-style div with margin-left 20pt and a padding yields two findings,
\* beside a list item that yields one
C6_Witness ==
    /\ rule = "bullets"
    /\ Len(rule_in) = 2
    /\ rule_in[1].tag = "div"
    /\ HasListStyleClass(rule_in[1])
    /\ rule_in[1].decls = <<Decl("margin-left", "20", "pt", TRUE), Decl("padding", "0", "", TRUE)>>
    /\ Cardinality(IssuesOf("e1")) = 2
    /\ Cardinality(IssuesOf("e2")) = 1
    /\ rule_out.misaligned_count = 3

\* a list-style div with margin-left 18pt and nothing else yields no finding
C6_WitnessPass ==
    /\ rule = "bullets"
    /\ Len(rule_in) = 1
    /\ HasListStyleClass(rule_in[1])
    /\ rule_in[1].style = <<"margin-left", ":", "18", "pt">>
    /\ rule_out.issues = <<>>
    /\ rule_out.total_bullets = 1

-----------------------------------------------------------------------------
(* invalid_navigation_paths_single_file                                    *)
(*                                                                         *)
(* A breadcrumb container (div class Step_1) is the sequence of its        *)
(* children: text nodes and elements, each with its text as the parser     *)
(* hands it over (entities decoded once; an element's text stripped).      *)
(* ">" is the literal glyph, "&gt;" and "&amp;gt;" are the entity texts    *)
(* still present after the parser decoded the source once.                 *)

TextNode(t) == [kind |-> "text", txt |-> t]
Element(t) == [kind |-> "elem", txt |-> t]

\* commands joined by separators written with and without spaces
SpacingChildren ==
    { Element(<<"A">>), TextNode(<<">">>), TextNode(<<" ", ">", " ">>),
      TextNode(<<" ", ">">>), TextNode(<<">", " ">>), TextNode(<<" ">>) }

\* one text node of letters, splitters and separators
WordAlphabet == {"M", "c", "G", "-", " ", ">"}
WordChildren == {<<TextNode(t)>> : t \in SeqsUpTo(WordAlphabet, MaxWordLen) \ {<<>>}}

\* separators written as entities
EntityChildren ==
    { <<Element(<<"A">>), TextNode(<<"&gt;">>), Element(<<"A">>)>>,
      <<Element(<<"A">>), TextNode(<<" ", "&amp;gt;", " ">>), Element(<<"A">>)>>,
      <<TextNode(<<"A", "&gt;", "A">>)>>,
      <<Element(<<"A", ">", "A">>)>> }

NavInputs == SeqsUpTo(SpacingChildren, MaxParts) \cup WordChildren \cup EntityChildren

CanonicalArrow == "&amp;gt;"

\* html.unescape on one token
UnescapeTok(t) ==
    CASE t = "&gt;" -> ">"
      [] t = "&amp;gt;" -> "&gt;"
      [] t = "&amp;amp;gt;" -> "&amp;gt;"
      [] OTHER -> t

\* html.unescape
Unescape(s) == [i \in DOMAIN s |-> UnescapeTok(s[i])]

\* txt.strip() is not empty
HasText(s) == \E i \in DOMAIN s : s[i] # " "

\* length of s without its trailing white space
RECURSIVE TrimmedLen(_)
TrimmedLen(s) ==
    IF Len(s) > 0 /\ s[Len(s)] = " " THEN TrimmedLen(SubSeq(s, 1, Len(s) - 1)) ELSE Len(s)

\* re.sub(r'\s*&gt;\s*|\s*>\s*', ' &amp;gt; ', s): the leftmost separator
\* glyph goes with the white space around it, then the rest of the string
RECURSIVE SubArrows(_)
SubArrows(s) ==
    IF ~(Contains(s, ">") \/ Contains(s, "&gt;")) THEN s
    ELSE LET g == CHOOSE i \in DOMAIN s :
                    /\ s[i] \in {">", "&gt;"}
                    /\ \A j \in 1..(i - 1) : s[j] \notin {">", "&gt;"}
             before == TrimmedLen(SubSeq(s, 1, g - 1))
             after == SkipSpaces(s, g + 1)
         IN SubSeq(s, 1, before) \o <<" ", CanonicalArrow, " ">>
              \o SubArrows(SubSeq(s, after, Len(s)))

\* re.sub(r'\s+', ' ', s)
RECURSIVE CollapseSpaces(_)
CollapseSpaces(s) ==
    IF s = <<>> THEN <<>>
    ELSE IF s[1] = " "
    THEN <<" ">> \o CollapseSpaces(SubSeq(s, SkipSpaces(s, 1), Len(s)))
    ELSE <<s[1]>> \o CollapseSpaces(Tail(s))

\* s.strip()
Strip(s) ==
    LET a == SkipSpaces(s, 1) IN
    IF a > Len(s) THEN <<>> ELSE SubSeq(s, a, TrimmedLen(s))

\* the part one child contributes; <<>> stands for "nothing appended"
PartOf(child) ==
    IF child.kind = "text"
    THEN IF HasText(child.txt) THEN <<SubArrows(Unescape(child.txt))>> ELSE <<>>
    ELSE <<child.txt>>

RECURSIVE PartsOf(_)
PartsOf(children) ==
    IF children = <<>> THEN <<>> ELSE PartOf(Head(children)) \o PartsOf(Tail(children))

\* " ".join(parts)
RECURSIVE JoinSpace(_)
JoinSpace(parts) ==
    IF Len(parts) = 0 THEN <<>>
    ELSE IF Len(parts) = 1 THEN parts[1]
    ELSE parts[1] \o <<" ">> \o JoinSpace(Tail(parts))

\* the final normalization of the joined parts
Canonicalize(combined) ==
    Strip(CollapseSpaces(SubArrows(Unescape(Strip(CollapseSpaces(combined))))))

\* nav_paths of one container
NavPaths(children) ==
    IF PartsOf(children) = <<>> THEN <<>>
    ELSE <<Canonicalize(JoinSpace(PartsOf(children)))>>

\* nav_path.replace(" &amp;gt; ", " [ARROW] ")
RECURSIVE ReplaceArrows(_)
ReplaceArrows(s) ==
    IF Len(s) < 3 THEN s
    ELSE IF s[1] = " " /\ s[2] = CanonicalArrow /\ s[3] = " "
    THEN <<" ", "[ARROW]", " ">> \o ReplaceArrows(SubSeq(s, 4, Len(s)))
    ELSE <<s[1]>> \o ReplaceArrows(Tail(s))

\* the spacing check
IncorrectSpacing(nav_path) ==
    Contains(nav_path, CanonicalArrow) /\ Contains(ReplaceArrows(nav_path), CanonicalArrow)

\* the pieces of s between the tokens of D, empty pieces included
RECURSIVE SplitOn(_, _)
SplitOn(s, D) ==
    IF \E i \in DOMAIN s : s[i] \in D
    THEN LET i == CHOOSE i \in DOMAIN s : s[i] \in D /\ \A j \in 1..(i - 1) : s[j] \notin D
         IN <<SubSeq(s, 1, i - 1)>> \o SplitOn(SubSeq(s, i + 1, Len(s)), D)
    ELSE <<s>>

NotEmpty(s) == s # <<>>

\* re.split(r'\s*&amp;gt;\s*', nav_path)
SplitArrows(nav_path) ==
    LET ps == SplitOn(nav_path, {CanonicalArrow}) IN [i \in DOMAIN ps |-> Strip(ps[i])]

\* part.split()
Words(part) == SelectSeq(SplitOn(part, {" "}), NotEmpty)

SubWordSplitters == {"/", "\\", "-", "_", "'", "(", ")"}

\* re.split(r"[\/\\\-_'\(\)]", word), the empty sub-words skipped
SubWords(word) == SelectSeq(SplitOn(word, SubWordSplitters), NotEmpty)

UpperToks == {"A", "B", "G", "M", "P"}
LowerToks == {"a", "b", "c", "d", "f", "n", "p", "q", "s", "t", "u", "x", "y"}

\* CAMEL_LIKE_RE counting upper-case letters only
CamelLikeUpperOnly(w) ==
    \E p \in 1..(Len(w) + 1) :
        \E i, j \in p..Len(w) : i < j /\ w[i] \in UpperToks /\ w[j] \in UpperToks

\* CAMEL_LIKE_RE.search(sub_word): (?=.*[A-Z].*[A-Z])(?=.*[a-z]) at some position
CamelLike(w) ==
    \E p \in 1..(Len(w) + 1) :
        /\ \E i, j \in p..Len(w) : i < j /\ w[i] \in UpperToks /\ w[j] \in UpperToks
        /\ \E k \in p..Len(w) : w[k] \in LowerToks

\* the sub-words the camel-case loops visit
VisitedSubWords(nav_path) ==
    UNION {UNION {Range(SubWords(word)) : word \in Range(Words(part))} :
              part \in Range(SplitArrows(nav_path))}

HasCamelCase(nav_path) == \E w \in VisitedSubWords(nav_path) : CamelLike(w)

\* the issues of one path
PathIssues(nav_path) ==
    (IF IncorrectSpacing(nav_path) THEN <<"incorrect_spacing">> ELSE <<>>)
      \o (IF HasCamelCase(nav_path) THEN <<"camel_case">> ELSE <<>>)

\* invalid_paths of the paths ps
RECURSIVE InvalidPaths(_)
InvalidPaths(ps) ==
    IF ps = <<>> THEN <<>>
    ELSE (IF PathIssues(Head(ps)) # <<>>
          THEN <<[navigation_path |-> Head(ps), issues |-> PathIssues(Head(ps))]>>
          ELSE <<>>) \o InvalidPaths(Tail(ps))

InitNav ==
    /\ IdleLink
    /\ NoTools
    /\ rule = ""
    /\ rule_in \in NavInputs
    /\ rule_out = <<>>

\* invalid_navigation_paths_single_file on a document with one container
RunNav ==
    /\ rule = ""
    /\ rule' = "nav"
    /\ rule_out' = [nav_paths |-> NavPaths(rule_in),
                    invalid_paths |-> InvalidPaths(NavPaths(rule_in))]
    /\ UNCHANGED rule_in
    /\ UNCHANGED linkVars
    /\ UNCHANGED origVars
    /\ UNCHANGED toolVars

SpecNav == InitNav /\ [][RunNav]_vars

\* the text of the container as written: the texts of its children in order
RECURSIVE SourceText(_)
SourceText(children) ==
    IF children = <<>> THEN <<>> ELSE Head(children).txt \o SourceText(Tail(children))

SeparatorGlyphs == {">", "&gt;", "&amp;gt;"}
SeparatorsIn(s) == {i \in DOMAIN s : s[i] \in SeparatorGlyphs}

SpaceAt(s, i) == i \in DOMAIN s /\ s[i] = " "

\* exactly one space on each side of the separator at position i
OneSpaceEachSide(s, i) ==
    /\ SpaceAt(s, i - 1) /\ ~SpaceAt(s, i - 2)
    /\ SpaceAt(s, i + 1) /\ ~SpaceAt(s, i + 2)

\* no space on one side or on both sides of the separator at position i
LacksSpace(s, i) == ~SpaceAt(s, i - 1) \/ ~SpaceAt(s, i + 1)

Flagged(issue) ==
    \E k \in DOMAIN rule_out.invalid_paths : issue \in Range(rule_out.invalid_paths[k].issues)

\* C7: a path whose separators all have exactly one space on each side in the
\* source text is not flagged incorrect_spacing; a path in which some
\* separator lacks a space on one or both sides is flagged incorrect_spacing.
C7_Spacing ==
    rule = "nav" /\ rule_out.nav_paths # <<>> =>
        LET s == SourceText(rule_in) IN
        /\ ((\A i \in SeparatorsIn(s) : OneSpaceEachSide(s, i)) => ~Flagged("incorrect_spacing"))
        /\ ((\E i \in SeparatorsIn(s) : LacksSpace(s, i)) => Flagged("incorrect_spacing"))

\* the second half of C7 on paths that begin and end with a command
C7_MissingSpaceFlagged ==
    rule = "nav" /\ rule_out.nav_paths # <<>> =>
        LET s == SourceText(rule_in) IN
        ( /\ s[1] \notin SeparatorGlyphs \cup {" "}
          /\ s[Len(s)] \notin SeparatorGlyphs \cup {" "}
          /\ \E i \in SeparatorsIn(s) : LacksSpace(s, i) )
        => Flagged("incorrect_spacing")

\* where the canonical token stands in path p
ArrowsIn(p) == {i \in DOMAIN p : p[i] = CanonicalArrow}

\* C27: every path produced holds no separator glyph other than the canonical
\* token, holds one canonical token for each separator of the source, and has
\* exactly one space on each side of every canonical token.
C27_Canonical ==
    rule = "nav" =>
        \A k \in DOMAIN rule_out.nav_paths :
            LET p == rule_out.nav_paths[k] IN
            /\ \A i \in DOMAIN p : p[i] \notin {">", "&gt;"}
            /\ Cardinality(ArrowsIn(p)) = Cardinality(SeparatorsIn(SourceText(rule_in)))
            /\ \A i \in ArrowsIn(p) : OneSpaceEachSide(p, i)

\* C27 for the canonical tokens inside the path: between two other tokens
C27_CanonicalInside ==
    rule = "nav" =>
        \A k \in DOMAIN rule_out.nav_paths :
            LET p == rule_out.nav_paths[k] IN
            /\ \A i \in DOMAIN p : p[i] \notin {">", "&gt;"}
            /\ Cardinality(ArrowsIn(p)) = Cardinality(SeparatorsIn(SourceText(rule_in)))
            /\ \A i \in ArrowsIn(p) :
                  /\ (i > 1 => SpaceAt(p, i - 1) /\ ~SpaceAt(p, i - 2))
                  /\ (i < Len(p) => SpaceAt(p, i + 1) /\ ~SpaceAt(p, i + 2))
            /\ (p # <<>> => p[1] # " " /\ p[Len(p)] # " ")

SubWordDelimiters == {" ", CanonicalArrow} \cup SubWordSplitters

\* where the maximal runs of tokens of s that hold no delimiter begin and end
RunBounds(s) ==
    {ab \in (DOMAIN s) \X (DOMAIN s) :
        /\ ab[1] <= ab[2]
        /\ \A k \in ab[1]..ab[2] : s[k] \notin SubWordDelimiters
        /\ (ab[1] = 1 \/ s[ab[1] - 1] \in SubWordDelimiters)
        /\ (ab[2] = Len(s) \/ s[ab[2] + 1] \in SubWordDelimiters)}

MaximalRuns(s) == {SubSeq(s, ab[1], ab[2]) : ab \in RunBounds(s)}

CountIn(w, S) == Cardinality({k \in DOMAIN w : w[k] \in S})

\* C8: a path is flagged camel_case if and only if one of its sub-words (the
\* path split on the separator, into words, and on / \ - _ ' ( )) holds at
\* least two upper-case letters and at least one lower-case letter.
C8_CamelCase ==
    rule = "nav" =>
        \A n \in DOMAIN rule_out.nav_paths :
            LET path == rule_out.nav_paths[n] IN
            (\E k \in DOMAIN rule_out.invalid_paths :
                /\ rule_out.invalid_paths[k].navigation_path = path
                /\ "camel_case" \in Range(rule_out.invalid_paths[k].issues))
            <=> (\E w \in MaximalRuns(path) :
                    CountIn(w, UpperToks) >= 2 /\ CountIn(w, LowerToks) >= 1)

\* "McG" was checked and flagged
C8_Witness ==
    /\ rule = "nav"
    /\ rule_in = <<TextNode(<<"M", "c", "G">>)>>
    /\ Flagged("camel_case")

\* "Mc-G" was checked and not flagged
C8_WitnessSplit ==
    /\ rule = "nav"
    /\ rule_in = <<TextNode(<<"M", "c", "-", "G">>)>>
    /\ rule_out.nav_paths = <<(<<"M", "c", "-", "G">>)>>
    /\ ~Flagged("camel_case")

-----------------------------------------------------------------------------
(* Logical-name normalization, as the index build applies it *)

NameAlphabet == {"A", "b", "_", "/", ".html"}
Names == SeqsUpTo(NameAlphabet, MaxNameLen) \ {<<>>}

\* the keys of an index, listed
RECURSIVE KeysOf(_)
KeysOf(index) ==
    IF DOMAIN index = {} THEN <<>>
    ELSE LET k == CHOOSE k \in DOMAIN index : TRUE
         IN <<k>> \o KeysOf([j \in (DOMAIN index) \ {k} |-> index[j]])

InitNorm ==
    /\ IdleLink
    /\ NoTools
    /\ rule = ""
    /\ rule_in \in Names
    /\ rule_out = <<>>

\* the normalization is applied to rule_in and again to its result; a file
\* named rule_in is indexed, then a file named by the resulting key is; a
\* reference rule_in#s is normalized for its lookup
RunNormalize ==
    /\ rule = ""
    /\ rule' = "norm"
    /\ LET keys == KeysOf(BuildHtmlDocumentIndex(ListingOf(<<rule_in>>)))
       IN rule_out' = [once |-> LogicalName(rule_in),
                       twice |-> LogicalName(LogicalName(rule_in)),
                       keys_once |-> keys,
                       keys_twice |-> KeysOf(BuildHtmlDocumentIndex(ListingOf(keys))),
                       href_key |-> NormalizeHtmlHref(rule_in \o <<"#", "s">>)]
    /\ UNCHANGED rule_in
    /\ UNCHANGED linkVars
    /\ UNCHANGED origVars
    /\ UNCHANGED toolVars

SpecNorm == InitNorm /\ [][RunNormalize]_vars

\* C9: normalizing a normalized name yields the same name, and a file named by
\* the logical name of an indexed file is indexed under that same logical name.
C9_Idempotent ==
    rule = "norm" =>
        /\ rule_out.twice = rule_out.once
        /\ rule_out.keys_twice = rule_out.keys_once
        /\ (rule_in[Len(rule_in)] = ".html" => rule_out.keys_once = <<rule_out.once>>)

\* a name with two prefixes and an upper-case letter was normalized to another name
C9_Witness ==
    /\ rule = "norm"
    /\ rule_in = <<"b", "_", "_", "A">>
    /\ rule_out.once = <<"a">>
    /\ rule_out.twice = <<"a">>

\* a prefixed upper-case document name was indexed under its last segment
C9_WitnessIndexed ==
    /\ rule = "norm"
    /\ rule_in = <<"b", "_", "A", ".html">>
    /\ rule_out.keys_once = <<(<<"a", ".html">>)>>
    /\ rule_out.keys_twice = <<(<<"a", ".html">>)>>

\* C12: for every document name n, a reference whose path is n is looked up
\* under the key under which the index build files n.
C12_SameKey ==
    rule = "norm" /\ LowerTok(rule_in[Len(rule_in)]) = ".html" =>
        rule_out.href_key = rule_out.once

\* C12 on the names that carry no prefix and no leading double slash
C12_SameKeyUnprefixed ==
    ( /\ rule = "norm"
      /\ LowerTok(rule_in[Len(rule_in)]) = ".html"
      /\ ~Contains(LastSegment(rule_in, "/"), "_")
      /\ ~(Len(rule_in) >= 2 /\ rule_in[1] = "/" /\ rule_in[2] = "/") )
    => rule_out.href_key = rule_out.once

-----------------------------------------------------------------------------
(* build_html_document_index on any listing the document store can return *)

\* what item.get("id") can be: 0 stands for the ids python takes for false
ListedIds == 0..MaxFiles
ListedNames == FileNames \cup {<<>>}
ListedItems == [id : ListedIds, file_name : ListedNames]

\* listings of items with distinct ids
IndexListings ==
    {l \in SeqsUpTo(ListedItems, MaxFiles) :
        \A i, j \in DOMAIN l : i # j => l[i].id # l[j].id}

InitIndex ==
    /\ IdleLink
    /\ NoTools
    /\ rule = ""
    /\ rule_in \in IndexListings
    /\ rule_out = <<>>

\* index = build_html_document_index(...) with rule_in as the listing
RunIndex ==
    /\ rule = ""
    /\ rule' = "index"
    /\ rule_out' = BuildHtmlDocumentIndex(rule_in)
    /\ UNCHANGED rule_in
    /\ UNCHANGED linkVars
    /\ UNCHANGED origVars
    /\ UNCHANGED toolVars

SpecIndex == InitIndex /\ [][RunIndex]_vars

\* the ids, in listing order, of the document entries of l whose logical name is L
IdsNamed(l, L) ==
    LET Named(item) == IsDocumentEntry(item) /\ LogicalName(item.file_name) = L
        kept == SelectSeq(l, Named)
    IN [k \in DOMAIN kept |-> kept[k].id]

LogicalNamesOf(l) == {LogicalName(l[i].file_name) : i \in {j \in DOMAIN l : IsDocumentEntry(l[j])}}

\* C11: the index maps each logical name L to exactly the ids, in listing
\* order, of the entries whose lower-cased basename ends with .html and whose
\* last '_'-delimited segment is L; every such entry contributes its id, the
\* others contribute nothing.
C11_IndexBuild ==
    rule = "index" =>
        /\ DOMAIN rule_out = LogicalNamesOf(rule_in)
        /\ \A L \in LogicalNamesOf(rule_in) : rule_out[L] = IdsNamed(rule_in, L)

\* C11 on the listings in which every id is one python takes for true
C11_IndexBuildTruthyIds ==
    rule = "index" /\ (\A i \in DOMAIN rule_in : rule_in[i].id # 0) =>
        /\ DOMAIN rule_out = LogicalNamesOf(rule_in)
        /\ \A L \in LogicalNamesOf(rule_in) : rule_out[L] = IdsNamed(rule_in, L)

-----------------------------------------------------------------------------
(* Extraction on documents that hold every kind of target *)

\* targets an anchor can name
AnchorTargets ==
    { <<"javascript:", "x">>, <<"mailto:", "x">>, <<"#">>, HrefFrag,
      <<"x", ".css">>, <<"x", ".CSS">>, <<"x", ".png">>, <<"x", ".js">>,
      HrefB, HrefBFrag, <<"d", "/", "B", ".HTML">>, UrlX, HrefAsset }

\* targets a link tag or an image can name
ResourceTargets == { <<"x", ".css">>, <<"x", ".CSS">>, <<"x", ".png">>, HrefB, UrlX, HrefAsset }

ExtractElems ==
    {Elem("a", h, <<"t">>) : h \in AnchorTargets}
      \cup {Elem(t, h, <<>>) : t \in {"link", "img"}, h \in ResourceTargets}

ExtractDocs == SeqsUpTo(ExtractElems, MaxLinks)

InitExtract ==
    /\ IdleLink
    /\ NoTools
    /\ rule = ""
    /\ rule_in \in ExtractDocs
    /\ rule_out = <<>>

\* the extraction and de-duplication of link_checker_single_html on rule_in
RunExtract ==
    /\ rule = ""
    /\ rule' = "extract"
    /\ rule_out' = UniqueLinks(ExtractLinks(rule_in))
    /\ UNCHANGED rule_in
    /\ UNCHANGED linkVars
    /\ UNCHANGED origVars
    /\ UNCHANGED toolVars

SpecExtract == InitExtract /\ [][RunExtract]_vars

\* style sheets, scripts, vector and raster images, icons
NonDocumentExts == {".css", ".js", ".svg", ".png", ".jpg", ".jpeg", ".gif", ".ico"}

PseudoTarget(h) == h[1] \in {"javascript:", "mailto:"} \/ h = <<"#">>

HasNonDocumentExt(h) == LowerTok(h[Len(h)]) \in NonDocumentExts

EndsInDocumentExt(h) == LowerTok(h[Len(h)]) = ".html"

\* the targets of the document
TargetsOf(doc) == {doc[k].href : k \in DOMAIN doc}

\* the targets passed on to classification
PassedOn == {rule_out[k].href : k \in DOMAIN rule_out}

\* C18: the targets passed on to classification are the document's anchor
\* hrefs, link-tag hrefs and image srcs except the javascript: and mailto:
\* pseudo-targets, the pure "#" and the targets with a non-document extension;
\* a target that ends in .html is passed on.
C18_ExtractionComplete ==
    rule = "extract" =>
        PassedOn = {h \in TargetsOf(rule_in) : ~PseudoTarget(h) /\ ~HasNonDocumentExt(h)}

\* C18 with the targets that end in .html left out on both sides
C18_ExtractionButDocuments ==
    rule = "extract" =>
        PassedOn = {h \in TargetsOf(rule_in) :
                       ~PseudoTarget(h) /\ ~HasNonDocumentExt(h) /\ ~EndsInDocumentExt(h)}

-----------------------------------------------------------------------------
(* The Original's link_checker: one pool over the links of every document,
   on documents whose references are all external *)

\* the links of one document after its own de-duplication
LinksOfOneFile ==
    {s \in SeqsUpTo(ExternalTargets, MaxLinks) :
        \A i, j \in DOMAIN s : i # j => s[i] # s[j]}

\* all_links.extend(unique_links), document by document
AllLinksOf(a, b) ==
    [i \in 1..Len(a) |-> [source_file |-> NameA, href |-> a[i], text |-> <<>>]]
    \o [i \in 1..Len(b) |-> [source_file |-> NamePB, href |-> b[i], text |-> <<>>]]

\* resolve_url of the Original, for an href that starts with http:// or https://
OriginalResolveUrl(href) == CASE IsExternal(href) -> href

\* the result dict the Original's check_link starts from
OriginalResult(link) ==
    [file |-> link.source_file, href |-> link.href, text |-> link.text,
     resolved_url |-> OriginalResolveUrl(link.href),
     status |-> StatusWord("None"), error |-> NoError, is_broken |-> FALSE]

\* the result once the last request has answered with code c
OriginalAnswered(link, c) ==
    [OriginalResult(link) EXCEPT !.status = StatusCode(c), !.is_broken = (c >= 400)]

\* the result when a request raised exception x
OriginalRaised(link, x) ==
    [OriginalResult(link) EXCEPT
        !.status = CASE x = "Timeout" -> StatusWord("Timeout")
                     [] x = "ConnectionError" -> StatusWord("Connection Error")
                     [] OTHER -> StatusWord("Error"),
        !.is_broken = TRUE,
        !.error = CASE x = "Timeout" -> ErrorText("Request timed out", 0, <<>>)
                    [] x = "ConnectionError" -> ErrorText("Failed to establish connection", 0, <<>>)
                    [] OTHER -> ErrorText(x, 0, <<>>)]

\* link_checker has extracted the links and is about to start its pool
InitOriginal ==
    /\ all_links \in {AllLinksOf(a, b) : a, b \in LinksOfOneFile}
    /\ checked_urls = {}
    /\ pc = "check"
    /\ task = [i \in DOMAIN all_links |-> "queued"]
    /\ res = [i \in DOMAIN all_links |-> OriginalResult(all_links[i])]
    /\ resp = [i \in DOMAIN all_links |-> NoResponse]
    /\ results = <<>>
    /\ collection = <<>>
    /\ html_items = <<>>
    /\ html_document_index = <<>>
    /\ cur = 0
    /\ source_file = <<>>
    /\ content = <<>>
    /\ unique_links = <<>>
    /\ invalid = <<>>
    /\ probes = [u \in ExternalTargets |-> 0]
    /\ threads = DefaultThreads
    /\ NoRule
    /\ NoTools

\* a worker takes the next link: the look-up in checked_urls and results, then
\* checked_urls.add; results is the list link_checker holds at that moment
OriginalStartCheck(i) ==
    /\ pc = "check"
    /\ task[i] = "queued"
    /\ \A j \in 1..(i - 1) : task[j] # "queued"
    /\ InFlight < threads
    /\ LET resolved_url == OriginalResolveUrl(all_links[i].href)
           hits == {k \in DOMAIN results : results[k].resolved_url = resolved_url}
       IN IF resolved_url \in checked_urls /\ hits # {}
          THEN LET result == results[CHOOSE k \in hits : \A h \in hits : k <= h]
               IN /\ res' = [res EXCEPT ![i] =
                                [OriginalResult(all_links[i]) EXCEPT
                                    !.status = result.status,
                                    !.is_broken = result.is_broken,
                                    !.error = result.error]]
                  /\ task' = [task EXCEPT ![i] = "done"]
                  /\ UNCHANGED <<checked_urls, probes>>
          ELSE /\ checked_urls' = checked_urls \cup {resolved_url}
               /\ task' = [task EXCEPT ![i] = "head"]
               /\ probes' = [probes EXCEPT ![all_links[i].href] = @ + 1]
               /\ res' = res
    /\ UNCHANGED <<collection, pc, html_items, html_document_index, cur, source_file,
                   content, unique_links, invalid, results, resp, all_links>>
    /\ UNCHANGED ruleVars
    /\ UNCHANGED toolVars
    /\ UNCHANGED threads

\* requests.head answers or raises
OriginalHeadAnswer(i, o) ==
    /\ pc = "check"
    /\ task[i] = "head"
    /\ resp' = [resp EXCEPT ![i] = o]
    /\ IF o.exc # ""
       THEN /\ task' = [task EXCEPT ![i] = "done"]
            /\ res' = [res EXCEPT ![i] = OriginalRaised(all_links[i], o.exc)]
       ELSE IF o.code >= 400
       THEN /\ task' = [task EXCEPT ![i] = "get"]
            /\ res' = res
       ELSE /\ task' = [task EXCEPT ![i] = "done"]
            /\ res' = [res EXCEPT ![i] = OriginalAnswered(all_links[i], o.code)]
    /\ UNCHANGED <<collection, pc, html_items, html_document_index, cur, source_file,
                   content, unique_links, invalid, results, probes>>
    /\ UNCHANGED <<ruleVars, origVars, toolVars>>
    /\ UNCHANGED threads

\* requests.get answers or raises
OriginalGetAnswer(i, o) ==
    /\ pc = "check"
    /\ task[i] = "get"
    /\ resp' = [resp EXCEPT ![i] = o]
    /\ task' = [task EXCEPT ![i] = "done"]
    /\ res' = [res EXCEPT ![i] =
                  IF o.exc # ""
                  THEN OriginalRaised(all_links[i], o.exc)
                  ELSE OriginalAnswered(all_links[i], o.code)]
    /\ UNCHANGED <<collection, pc, html_items, html_document_index, cur, source_file,
                   content, unique_links, invalid, results, probes>>
    /\ UNCHANGED <<ruleVars, origVars, toolVars>>
    /\ UNCHANGED threads

\* results = list(executor.map(check_link, all_links))
OriginalCollect ==
    /\ pc = "check"
    /\ \A i \in DOMAIN task : task[i] = "done"
    /\ results' = res
    /\ pc' = "done"
    /\ UNCHANGED <<collection, html_items, html_document_index, cur, source_file,
                   content, unique_links, task, res, resp, invalid, probes>>
    /\ UNCHANGED <<ruleVars, origVars, toolVars>>
    /\ UNCHANGED threads

NextOriginal ==
    \/ \E i \in DOMAIN task : OriginalStartCheck(i)
    \/ \E i \in DOMAIN task, o \in Outcomes : OriginalHeadAnswer(i, o)
    \/ \E i \in DOMAIN task, o \in Outcomes : OriginalGetAnswer(i, o)
    \/ OriginalCollect

SpecOriginal == InitOriginal /\ [][NextOriginal]_vars

\* C20: once the checks are collected, two references that resolve to the same
\* target carry the same status, that of the first check of the target.
C20_OneStatusPerTarget ==
    pc = "done" =>
        \A i, j \in DOMAIN results :
            results[i].resolved_url = results[j].resolved_url
                => results[i].status = results[j].status

\* C20, what the pool does: while the workers run, the list the look-up reads
\* is empty, and every reference is probed itself
C20_EveryReferenceProbed ==
    /\ (pc = "check" => results = <<>>)
    /\ (pc = "done" =>
            \A u \in ExternalTargets :
                probes[u] = Cardinality({i \in DOMAIN all_links : all_links[i].href = u}))

-----------------------------------------------------------------------------
(* link_checker_single_html on documents that hold every class of target,
   with any pool size and any exception of a request *)

\* targets that carry ".html" outside the place that makes a same-corpus
\* reference: in an external URL, in a fragment, in the query string only
UrlBDoc == <<"http://", "x", "/", "b", ".html", "?", "q">>
HrefFragDoc == <<"#", "b", ".html", "-", "s">>
HrefQueryDoc == <<"f", "?", "r", "=", "b", ".html", "&">>

ClassElems ==
    { Elem("a", UrlBDoc, <<"t">>), Elem("a", UrlX, <<"t">>),
      Elem("a", HrefFragDoc, <<"t">>), Elem("a", HrefQueryDoc, <<"t">>),
      Elem("a", HrefBFrag, <<"t">>), Elem("link", HrefAsset, <<>>) }

ClassDocs == SeqsUpTo(ClassElems, MaxLinks)

\* the collection lists the checked document and up to MaxFiles other files
ClassListings ==
    {ListingOf(<<NameA>> \o ns) : ns \in SeqsUpTo(FileNames \ {NameA}, MaxFiles)}

ClassExternalTargets == ExternalTargets \cup {UrlBDoc}

\* a request may also raise an exception that is none of requests' own
AllOutcomes == Outcomes \cup [code : {0}, exc : {"Exception"}]

\* link_checker_single_html is called with a built index and a pool size
InitClass ==
    /\ collection \in ClassListings
    /\ pc = "extract"
    /\ html_items = <<>>
    /\ html_document_index = BuildHtmlDocumentIndex(collection)
    /\ cur = 0
    /\ source_file = NameA
    /\ content \in ClassDocs
    /\ unique_links = <<>>
    /\ task = <<>>
    /\ res = <<>>
    /\ resp = <<>>
    /\ invalid = <<>>
    /\ results = <<>>
    /\ probes = [u \in ClassExternalTargets |-> 0]
    /\ threads \in {1, DefaultThreads}
    /\ NoRule
    /\ NoOriginal
    /\ NoTools

NextClass ==
    \/ Extract
    \/ \E i \in DOMAIN task : StartCheck(i)
    \/ \E i \in DOMAIN task, o \in AllOutcomes : HeadAnswer(i, o)
    \/ \E i \in DOMAIN task, o \in AllOutcomes : GetAnswer(i, o)
    \/ ReturnInvalid

SpecClass == InitClass /\ [][NextClass]_vars

\* the two readings of "holds the document extension": in the path component
\* of the target, and anywhere in its text
PathHasHtml(h) == Contains(Lower(UrlPath(h)), ".html")
HrefHasHtml(h) == Contains(Lower(h), ".html")

\* the first rule of the classification that matches target h
RuleOf(h, IsSameCorpus(_)) ==
    IF IsExternal(h) THEN "external"
    ELSE IF StartsWith(h, "#") THEN "fragment"
    ELSE IF IsSameCorpus(h) THEN "same-corpus"
    ELSE "other"

\* the finished result of link i is the one rule gives: a probe's outcome, Healthy
\* without request, the index lookup's outcome, or Not Validated
ResultFollows(i, ruleName) ==
    LET h == unique_links[i].href
        r == res[i]
        n == Len(IndexGet(html_document_index, NormalizeHtmlHref(h)))
    IN CASE ruleName = "external" ->
              /\ resp[i] # NoResponse
              /\ probes[h] = 1
              /\ r.error.name = <<>>
              /\ IF resp[i].exc = "" THEN r.status = StatusCode(resp[i].code)
                 ELSE r.status.label # "" /\ BrokenStatus(r.status)
         [] ruleName = "fragment" ->
              /\ resp[i] = NoResponse
              /\ r.status = StatusCode(200) /\ ~r.is_broken /\ r.error = NoError
         [] ruleName = "same-corpus" ->
              /\ resp[i] = NoResponse
              /\ (n = 1 => r.status = StatusCode(200) /\ ~r.is_broken)
              /\ (n > 1 => AmbiguousStatus(r.status) /\ r.is_broken)
              /\ (n = 0 => r.status = StatusCode(404) /\ r.is_broken)
         [] ruleName = "other" ->
              /\ resp[i] = NoResponse
              /\ NotValidatedStatus(r.status) /\ ~BrokenStatus(r.status)
              /\ r.error.msg = "Local path cannot be verified without base URL"

\* C21: every checked target has the result of the first rule that matches it,
\* in the order external, fragment, same-corpus (the document extension in the
\* target's path), anything else; only external targets are ever probed.
C21_Classification ==
    \A i \in DOMAIN task :
        /\ task[i] \in {"head", "get"} => IsExternal(unique_links[i].href)
        /\ task[i] = "done" => ResultFollows(i, RuleOf(unique_links[i].href, PathHasHtml))

\* C21 with the third rule as check_link tests it: ".html" anywhere in the target
C21_ClassificationByHrefText ==
    \A i \in DOMAIN task :
        /\ task[i] \in {"head", "get"} => IsExternal(unique_links[i].href)
        /\ task[i] = "done" => ResultFollows(i, RuleOf(unique_links[i].href, HrefHasHtml))

\* an external target that holds ".html" was probed, and a fragment that holds
\* ".html" is Healthy, in a document checked against an index without b.html
C21_WitnessOrder ==
    /\ pc = "returned"
    /\ IndexGet(html_document_index, <<"b", ".html">>) = <<>>
    /\ \E i \in DOMAIN res : res[i].href = UrlBDoc /\ res[i].status = StatusCode(200)
    /\ \E i \in DOMAIN res : res[i].href = HrefFragDoc /\ res[i].status = StatusCode(200)

\* C22: a target that is neither external nor a fragment is looked up in the
\* index exactly when its path component holds the document extension;
\* otherwise it is Not Validated.
C22_SameCorpusByPath ==
    \A i \in DOMAIN task :
        LET h == unique_links[i].href
        IN task[i] = "done" /\ ~IsExternal(h) /\ ~StartsWith(h, "#")
              => (PathHasHtml(h) <=> ~NotValidatedStatus(res[i].status))

\* C22, what check_link does: the lookup is made exactly when ".html" occurs
\* anywhere in the target
C22_SameCorpusByHrefText ==
    \A i \in DOMAIN task :
        LET h == unique_links[i].href
        IN task[i] = "done" /\ ~IsExternal(h) /\ ~StartsWith(h, "#")
              => (HrefHasHtml(h) <=> ~NotValidatedStatus(res[i].status))

\* the numeral of a match count, as an f-string writes it
NumeralTok(n) == CASE n = 2 -> "2" [] n = 3 -> "3" [] n = 4 -> "4" [] OTHER -> "?"

\* the error text holds the number n: as the number it embeds, or in the name
MentionsNumber(err, n) == err.code = n \/ Contains(err.name, NumeralTok(n))

\* C23: the reason of every Ambiguous result holds the number of ids the
\* reference's logical name maps to.
C23_AmbiguousCount ==
    \A i \in DOMAIN task :
        task[i] = "done" /\ AmbiguousStatus(res[i].status)
            => MentionsNumber(res[i].error,
                   Len(IndexGet(html_document_index,
                                NormalizeHtmlHref(unique_links[i].href))))

\* C23, what the reason holds: the fixed text and the logical name
C23_AmbiguousNamesLogical ==
    \A i \in DOMAIN task :
        task[i] = "done" /\ AmbiguousStatus(res[i].status)
            => res[i].error = ErrorText("Multiple documents resolve to", 0,
                                        NormalizeHtmlHref(unique_links[i].href))

\* a request of link i raises in this step
Raises(i) ==
    /\ i \in DOMAIN task /\ task[i] \in {"head", "get"}
    /\ task'[i] = "done" /\ resp'[i].exc # ""

\* C24: an exception raised by a request of one reference ends that reference's
\* check with a Broken result and touches no other reference nor the run of the
\* document's check; and when the check returns every reference has its own
\* result, the raising ones reported.
C24_ErrorsContained ==
    /\ [][\A i \in DOMAIN task :
             Raises(i) =>
                /\ res'[i].is_broken /\ BrokenStatus(res'[i].status)
                /\ res'[i].href = unique_links[i].href
                /\ \A j \in DOMAIN task \ {i} : res'[j] = res[j] /\ task'[j] = task[j]
                /\ pc' = pc /\ unique_links' = unique_links]_vars
    /\ [](pc = "returned" =>
            \A i \in DOMAIN unique_links :
                /\ task[i] = "done"
                /\ res[i].status # StatusWord("None")
                /\ (resp[i].exc \notin {"", "none"} => Reported(unique_links[i].href)))

\* one reference's request raised an exception that is none of requests' own
\* and is reported with status Error; the other reference of the document was
\* checked after it and is Healthy
C24_Witness ==
    /\ pc = "returned"
    /\ Len(unique_links) = 2
    /\ unique_links[1].href = UrlBDoc /\ resp[1].exc = "Exception"
    /\ ReportedAs(UrlBDoc, BrokenStatus)
    /\ res[1].status = StatusWord("Error")
    /\ unique_links[2].href = UrlX /\ res[2].status = StatusCode(200)
    /\ ~Reported(UrlX)

\* C24 for the Original's check_link: when the pool has drained every link has
\* its result, Broken where its request raised
C24_OriginalErrorsContained ==
    pc = "done" =>
        /\ Len(results) = Len(all_links)
        /\ \A i \in DOMAIN results :
              /\ results[i].href = all_links[i].href
              /\ results[i].status # StatusWord("None")
              /\ (resp[i].exc \notin {"", "none"}
                    => results[i].is_broken /\ BrokenStatus(results[i].status))

-----------------------------------------------------------------------------
(* list_all_html_files_in_collection against a server that answers page by page *)

MaxTotal == 4       \* items the server stores, and the total_count it reports

\* the items the server stores: dicts with id, file_name and more
StoredItem(k, n) == [id |-> k, file_name |-> n, size |-> 1]
Stores ==
    {[k \in DOMAIN ns |-> StoredItem(k, ns[k])] : ns \in SeqsUpTo({NameA, NameCss}, MaxTotal)}

\* resp.json()["data"] of the request for page page_number
FetchPage(stored, total_count, page_size, page_number) ==
    [total_count |-> total_count,
     items |-> SubSeq(stored, (page_number - 1) * page_size + 1,
                      Min(page_number * page_size, Len(stored)))]

\* int(total_count / page_size): the pages that are full
TotalPagesFloor(total_count, page_size) == total_count \div page_size

\* math.ceil(total_count / page_size)
TotalPages(total_count, page_size) == (total_count + page_size - 1) \div page_size

\* the returned list: id and file_name of every item
ResultOf(items) == [k \in DOMAIN items |-> [id |-> items[k].id, file_name |-> items[k].file_name]]

\* the function is called; the server reports any total_count
InitPages ==
    /\ IdleLink
    /\ NoRule
    /\ navscan = <<>>
    /\ \E st \in Stores, T \in 0..MaxTotal, P \in 1..2 :
          paging = [stored |-> st, total_count |-> T, page_size |-> P,
                    pc |-> "first", page |-> 1, requested |-> <<>>,
                    items |-> <<>>, result |-> <<>>]

\* first_page = fetch_page(1), up to the loop or the return
FirstPage ==
    /\ paging # <<>> /\ paging.pc = "first"
    /\ LET first_page == FetchPage(paging.stored, paging.total_count, paging.page_size, 1)
           total_pages == TotalPages(first_page.total_count, paging.page_size)
       IN paging' =
            IF first_page.total_count = 0
            THEN [paging EXCEPT !.requested = <<1>>, !.items = first_page.items,
                                !.pc = "returned", !.result = <<>>]
            ELSE IF total_pages < 2
            THEN [paging EXCEPT !.requested = <<1>>, !.items = first_page.items,
                                !.pc = "returned", !.result = ResultOf(first_page.items)]
            ELSE [paging EXCEPT !.requested = <<1>>, !.items = first_page.items,
                                !.pc = "more", !.page = 2]
    /\ UNCHANGED <<linkVars, ruleVars, origVars, navscan>>

\* one turn of the loop over range(2, total_pages + 1); after the last, the return
NextPage ==
    /\ paging # <<>> /\ paging.pc = "more"
    /\ LET data == FetchPage(paging.stored, paging.total_count, paging.page_size, paging.page)
           total_pages == TotalPages(paging.total_count, paging.page_size)
           items == paging.items \o data.items
       IN paging' =
            IF paging.page + 1 > total_pages
            THEN [paging EXCEPT !.requested = Append(@, paging.page), !.items = items,
                                !.pc = "returned", !.result = ResultOf(items)]
            ELSE [paging EXCEPT !.requested = Append(@, paging.page), !.items = items,
                                !.page = @ + 1]
    /\ UNCHANGED <<linkVars, ruleVars, origVars, navscan>>

\* resp.raise_for_status() raises: the exception leaves the function
PageRequestFails ==
    /\ paging # <<>> /\ paging.pc \in {"first", "more"}
    /\ paging' = [paging EXCEPT !.requested = Append(@, paging.page), !.pc = "raised"]
    /\ UNCHANGED <<linkVars, ruleVars, origVars, navscan>>

NextPages == FirstPage \/ NextPage \/ PageRequestFails

SpecPages == InitPages /\ [][NextPages]_vars

\* the least number of pages of size P that hold T items
PagesFor(T, P) == CHOOSE n \in 0..T : n * P >= T /\ (n - 1) * P < T

\* the items of pages 1..n, page after page
RECURSIVE ItemsOfPages(_, _, _)
ItemsOfPages(stored, P, n) ==
    IF n = 0 THEN <<>>
    ELSE ItemsOfPages(stored, P, n - 1) \o FetchPage(stored, 0, P, n).items

\* C25: the pages are requested one by one from page 1 upward; a run that
\* returns has requested exactly the pages 1..ceil(T/P) and returns the items
\* of these pages in page order, and for a reported total of 0 it has
\* requested page 1 only and returns the empty list.
C25_Pagination ==
    paging # <<>> =>
        /\ paging.requested = [k \in 1..Len(paging.requested) |-> k]
        /\ paging.pc = "returned" =>
              LET T == paging.total_count
                  P == paging.page_size
              IN IF T = 0
                 THEN paging.requested = <<1>> /\ paging.result = <<>>
                 ELSE /\ Len(paging.requested) = PagesFor(T, P)
                      /\ paging.result = ResultOf(ItemsOfPages(paging.stored, P, PagesFor(T, P)))

\* a run over two pages, the second one not full, has returned three items
C25_Witness ==
    /\ paging # <<>> /\ paging.pc = "returned"
    /\ paging.total_count = 3 /\ paging.page_size = 2
    /\ paging.requested = <<1, 2>>
    /\ Len(paging.result) = 3
    /\ \A k \in 1..3 : paging.result[k].id = k

\* the server reported a total of 0 while it stores items: one request, no item
C25_WitnessEmpty ==
    /\ paging # <<>> /\ paging.pc = "returned"
    /\ paging.total_count = 0 /\ paging.stored # <<>>
    /\ paging.requested = <<1>> /\ paging.result = <<>>

-----------------------------------------------------------------------------
(* invalid_navigation_paths_in_collection: the documents of a listing go
   through process_file, in a pool of workers or one after the other *)

\* the default of the parameter max_workers
DefaultMaxWorkers == 5

\* what the store serves for a document: the error text of a failed download,
\* a document with a camel-case path, a document with a clean path
Download(start, children) == [starts |-> start, children |-> children]
NavFetchError == Download("HTTP error", <<>>)
NavDocInvalid == Download("<div", <<TextNode(<<"M", "G", "c">>)>>)
NavDocClean ==
    Download("<div", <<Element(<<"A">>), TextNode(<<" ", ">", " ">>), Element(<<"A">>)>>)
NavServed == {NavFetchError, NavDocInvalid, NavDocClean}

None == [none |-> TRUE]

\* process_file on entry file_info, whose download gives html_content
ProcessFile(file_info, html_content) ==
    IF html_content.starts \in {"HTTP error", "Request failed"}
    THEN [file_id |-> file_info.id, file_name |-> file_info.file_name,
          error |-> html_content.starts, invalid_count |-> 0, invalid_paths |-> <<>>]
    ELSE LET invalid_paths == InvalidPaths(NavPaths(html_content.children))
         IN IF invalid_paths # <<>>
            THEN [file_id |-> file_info.id, file_name |-> file_info.file_name,
                  error |-> "", invalid_count |-> Len(invalid_paths),
                  invalid_paths |-> invalid_paths]
            ELSE None

\* the function is called; the listing and the downloads are what they are
InitNavScan ==
    /\ IdleLink
    /\ NoRule
    /\ paging = <<>>
    /\ \E ns \in SeqsUpTo({NameA}, MaxFiles), mt \in BOOLEAN,
          w \in {1, DefaultMaxWorkers} :
         \E sv \in [DOMAIN ns -> NavServed] :
            navscan = [html_files |-> ListingOf(ns), served |-> sv,
                       use_multithreading |-> mt, max_workers |-> w,
                       pc |-> "start",
                       state |-> [k \in DOMAIN ns |-> "pending"],
                       future |-> [k \in DOMAIN ns |-> None],
                       taken |-> {}, results |-> <<>>]

\* `if not html_files: return []`, else the futures are submitted or the loop begins
NavBegin ==
    /\ navscan # <<>> /\ navscan.pc = "start"
    /\ navscan' = [navscan EXCEPT !.pc =
                      IF navscan.html_files = <<>> THEN "returned"
                      ELSE IF navscan.use_multithreading THEN "pool" ELSE "loop"]
    /\ UNCHANGED <<linkVars, ruleVars, origVars, paging>>

Processing == {k \in DOMAIN navscan.state : navscan.state[k] = "running"}

\* a worker of the pool takes the next submitted document, without the limit
NavTakeUnbounded(k) ==
    /\ navscan # <<>> /\ navscan.pc = "pool"
    /\ k \in DOMAIN navscan.state /\ navscan.state[k] = "pending"
    /\ \A j \in 1..(k - 1) : navscan.state[j] # "pending"
    /\ navscan' = [navscan EXCEPT !.state[k] = "running"]
    /\ UNCHANGED <<linkVars, ruleVars, origVars, paging>>

\* a worker of the pool takes the next submitted document
NavTake(k) ==
    /\ navscan # <<>> /\ navscan.pc = "pool"
    /\ k \in DOMAIN navscan.state /\ navscan.state[k] = "pending"
    /\ \A j \in 1..(k - 1) : navscan.state[j] # "pending"
    /\ Cardinality(Processing) < navscan.max_workers
    /\ navscan' = [navscan EXCEPT !.state[k] = "running"]
    /\ UNCHANGED <<linkVars, ruleVars, origVars, paging>>

\* process_file returns in its worker
NavFinish(k) ==
    /\ navscan # <<>> /\ navscan.pc = "pool"
    /\ k \in DOMAIN navscan.state /\ navscan.state[k] = "running"
    /\ navscan' = [navscan EXCEPT
                      !.state[k] = "done",
                      !.future[k] = ProcessFile(navscan.html_files[k], navscan.served[k])]
    /\ UNCHANGED <<linkVars, ruleVars, origVars, paging>>

\* what the main thread does with the result of document k; after the last
\* document the function returns
Collected(k, result) ==
    [navscan EXCEPT
        !.taken = @ \cup {k},
        !.results = IF result # None THEN Append(@, result) ELSE @,
        !.pc = IF navscan.taken \cup {k} = DOMAIN navscan.html_files
               THEN "returned" ELSE @]

\* the main thread taking the results as the workers complete
NavCollectAsCompleted(k) ==
    /\ navscan # <<>> /\ navscan.pc = "pool"
    /\ k \in DOMAIN navscan.state \ navscan.taken
    /\ navscan.state[k] = "done"
    /\ navscan' = Collected(k, navscan.future[k])
    /\ UNCHANGED <<linkVars, ruleVars, origVars, paging>>

\* the main thread: future.result() on the futures in the order of submission
NavCollect(k) ==
    /\ navscan # <<>> /\ navscan.pc = "pool"
    /\ k \in DOMAIN navscan.state \ navscan.taken
    /\ \A j \in 1..(k - 1) : j \in navscan.taken
    /\ navscan.state[k] = "done"
    /\ navscan' = Collected(k, navscan.future[k])
    /\ UNCHANGED <<linkVars, ruleVars, origVars, paging>>

\* one turn of the loop without pool
NavSequential(k) ==
    /\ navscan # <<>> /\ navscan.pc = "loop"
    /\ k \in DOMAIN navscan.state \ navscan.taken
    /\ \A j \in 1..(k - 1) : j \in navscan.taken
    /\ navscan' = [Collected(k, ProcessFile(navscan.html_files[k], navscan.served[k]))
                     EXCEPT !.state[k] = "done"]
    /\ UNCHANGED <<linkVars, ruleVars, origVars, paging>>

NextNavScan ==
    \/ NavBegin
    \/ \E k \in 1..MaxFiles : NavTake(k)
    \/ \E k \in 1..MaxFiles : NavFinish(k)
    \/ \E k \in 1..MaxFiles : NavCollect(k)
    \/ \E k \in 1..MaxFiles : NavSequential(k)

SpecNavScan == InitNavScan /\ [][NextNavScan]_vars

\* the list of the run without pool: the documents in listing order, each
\* through process_file, the empty results left out
RECURSIVE SequentialResults(_, _, _)
SequentialResults(html_files, served, n) ==
    IF n = 0 THEN <<>>
    ELSE LET result == ProcessFile(html_files[n], served[n])
         IN SequentialResults(html_files, served, n - 1)
              \o (IF result # None THEN <<result>> ELSE <<>>)

\* C29: whatever the order in which the workers take and finish documents,
\* the returned list is the list of the sequential run on the same listing
\* and downloads: one entry per document with a failed download or an
\* invalid path, in listing order.
C29_SameAsSequential ==
    navscan # <<>> /\ navscan.pc = "returned" =>
        LET n == Len(navscan.html_files) IN
        /\ navscan.results = SequentialResults(navscan.html_files, navscan.served, n)
        /\ \A k \in 1..n :
              (navscan.served[k] # NavDocClean)
                 <=> (\E r \in DOMAIN navscan.results : navscan.results[r].file_id = k)
        /\ \A q, r \in DOMAIN navscan.results :
              q < r => navscan.results[q].file_id < navscan.results[r].file_id

\* a run with pool in which the second document finished before the first,
\* both with a finding, has returned
C29_Witness ==
    /\ navscan # <<>> /\ navscan.pc = "returned" /\ navscan.use_multithreading
    /\ Len(navscan.results) = 2
    /\ navscan.results[1].error = "HTTP error"
    /\ navscan.results[2].invalid_count = 1

\* the second document has finished while the first is still in its worker
C29_WitnessOutOfOrder ==
    /\ navscan # <<>> /\ navscan.pc = "pool"
    /\ Len(navscan.html_files) = 2
    /\ navscan.state[1] = "running" /\ navscan.state[2] = "done"

-----------------------------------------------------------------------------
(* The two pools: the check workers of link_checker_single_html and the
   document workers of invalid_navigation_paths_in_collection *)

InitPools == InitClass \/ InitNavScan

NextPools == NextClass \/ NextNavScan

SpecPools == InitPools /\ [][NextPools]_vars

\* C30: at every moment the reference checks in flight are at most threads,
\* and the documents in process_file are at most max_workers.
C30_PoolsBounded ==
    /\ InFlight <= threads
    /\ navscan # <<>> => Cardinality(Processing) <= navscan.max_workers

\* a pool of one check worker is busy with a request while another external
\* reference of the document waits in the queue
C30_Witness ==
    /\ pc = "check" /\ threads = 1
    /\ InFlight = threads
    /\ \E i \in DOMAIN task : task[i] = "queued" /\ IsExternal(unique_links[i].href)

\* a pool of one document worker is busy while another document waits
C30_WitnessDocuments ==
    /\ navscan # <<>> /\ navscan.pc = "pool" /\ navscan.max_workers = 1
    /\ Cardinality(Processing) = 1
    /\ \E k \in DOMAIN navscan.state : navscan.state[k] = "pending"

-----------------------------------------------------------------------------
(* The index during the check of a document *)

\* the references whose check has run the index lookup
LookedUp == {i \in DOMAIN task : task[i] = "done" /\ SameCorpus(unique_links[i].href)}

\* C26: from the call of link_checker_single_html to its return, under every
\* interleaving of the workers, the index is the index that was built: the
\* same keys and the same bucket under every key.
C26_IndexReadOnly ==
    /\ html_document_index = BuildHtmlDocumentIndex(collection)
    /\ \A i \in LookedUp :
          IndexGet(html_document_index, NormalizeHtmlHref(unique_links[i].href)) = <<>>
             => NormalizeHtmlHref(unique_links[i].href) \notin DOMAIN html_document_index

\* the check has returned after looking up a logical name that is absent from
\* the index and one that the index holds
C26_Witness ==
    /\ pc = "returned"
    /\ \E i \in LookedUp : res[i].status = StatusCode(404)
    /\ \E i \in LookedUp : res[i].status # StatusCode(404)
    /\ html_document_index # <<>>

-----------------------------------------------------------------------------
(* check_spaces_in_single_file on a document with one link in a parent element *)

MaxSideLen == 2     \* characters of the parent's text on each side of the link

\* characters: a letter of the link, another letter, a space, a full stop
SpaceChars == {"L", "x", " ", "."}
SideTexts == SeqsUpTo(SpaceChars, MaxSideLen)
AnchorTexts == {<<"L">>, <<" ", "L">>, <<"L", " ">>, <<>>}

\* the parent's text before the link, the link's text, the parent's text after
\* it, and whether the link is a menu link or a skip link
SpacesInputs ==
    [pre : SideTexts, anchor : AnchorTexts, post : SideTexts,
     is_menu_link : BOOLEAN, is_skip_link : BOOLEAN]

\* re.search(re.escape(link_text), parent_text).span()[0], 0-based; -1 = no match
SearchStart(link_text, parent_text) ==
    LET hits == {i \in 1..(Len(parent_text) - Len(link_text) + 1) :
                    SubSeq(parent_text, i, i + Len(link_text) - 1) = link_text}
    IN IF hits = {} THEN -1 ELSE (CHOOSE i \in hits : \A j \in hits : i <= j) - 1

\* str.isspace() of one character or of the empty string
IsSpace(c) == c = " "

\* the issues of the one link of the document
CheckSpacesInSingleFile(in) ==
    LET parent_text == in.pre \o in.anchor \o in.post
        link_text == Strip(in.anchor)
        start == SearchStart(link_text, parent_text)
        end == start + Len(link_text)
        before == IF start > 0 THEN parent_text[start] ELSE ""
        after == IF end < Len(parent_text) THEN parent_text[end + 1] ELSE ""
        has_space_before == IsSpace(before)
        has_space_after == IF after # "." THEN IsSpace(after) ELSE FALSE
    IN IF in.is_menu_link \/ in.is_skip_link THEN <<>>
       ELSE IF link_text = <<>> THEN <<>>
       ELSE IF start < 0 THEN <<>>
       ELSE IF has_space_before \/ has_space_after
       THEN <<[link_text |-> link_text,
               missing_space_before |-> has_space_before,
               missing_space_after |-> has_space_after,
               remarks |-> "Missing space detected"]>>
       ELSE <<>>

InitSpaces ==
    /\ IdleLink
    /\ NoTools
    /\ rule = ""
    /\ rule_in \in SpacesInputs
    /\ rule_out = <<>>

RunSpaces ==
    /\ rule = ""
    /\ rule' = "spaces"
    /\ rule_out' = CheckSpacesInSingleFile(rule_in)
    /\ UNCHANGED rule_in
    /\ UNCHANGED linkVars
    /\ UNCHANGED origVars
    /\ UNCHANGED toolVars

SpecSpaces == InitSpaces /\ [][RunSpaces]_vars

\* where the link's text stands in the parent's text: the characters just
\* before and just after it ("" at the parent's ends)
CharBeforeLink(in) ==
    LET parent_text == in.pre \o in.anchor \o in.post
        first == Len(in.pre) + SkipSpaces(in.anchor, 1)
    IN IF first > 1 THEN parent_text[first - 1] ELSE ""
CharAfterLink(in) ==
    LET parent_text == in.pre \o in.anchor \o in.post
        last == Len(in.pre) + TrimmedLen(in.anchor)
    IN IF last < Len(parent_text) THEN parent_text[last + 1] ELSE ""

\* C28: a link with text, outside menus and skip links, that has a character
\* on each side in the parent's text is reported exactly
\* when the character before or the character after its text in the parent's
\* text is not white space, with missing_space_before and missing_space_after
\* saying which; a link with white space on both sides is not reported.
C28_MissingSpaceReported ==
    rule = "spaces" /\ ~rule_in.is_menu_link /\ ~rule_in.is_skip_link
                    /\ Strip(rule_in.anchor) # <<>>
                    /\ CharBeforeLink(rule_in) # ""
                    /\ CharAfterLink(rule_in) # "" =>
        LET missing_before == ~IsSpace(CharBeforeLink(rule_in))
            missing_after == ~IsSpace(CharAfterLink(rule_in))
        IN /\ (rule_out # <<>>) <=> (missing_before \/ missing_after)
           /\ rule_out # <<>> =>
                 /\ rule_out[1].missing_space_before <=> missing_before
                 /\ rule_out[1].missing_space_after <=> missing_after

\* C28, what the function reports: a link whose first occurrence of its text
\* in the parent's text has white space before or after it, the two fields
\* saying on which side the white space is
C28_SpaceReported ==
    rule = "spaces" /\ ~rule_in.is_menu_link /\ ~rule_in.is_skip_link
                    /\ Strip(rule_in.anchor) # <<>>
                    /\ ~Contains(rule_in.pre, "L") =>
        LET space_before == IsSpace(CharBeforeLink(rule_in))
            space_after == IsSpace(CharAfterLink(rule_in))
        IN /\ (rule_out # <<>>) <=> (space_before \/ space_after)
           /\ rule_out # <<>> =>
                 /\ rule_out[1].missing_space_before <=> space_before
                 /\ rule_out[1].missing_space_after <=> space_after

====
